---- MODULE Spec2Model ----
(***************************************************************************)
(* A model of rlox: the scanner (src/src/scanner.rs), the parser            *)
(* (src/src/parser.rs), the environment (src/src/environment.rs), the       *)
(* tree-walking interpreter (src/src/interpreter.rs) and the orchestrator   *)
(* (src/src/rlox.rs, src/src/main.rs).                                      *)
(*                                                                          *)
(* Every Rust method is an operator that takes the object's state as a      *)
(* record and returns the new state together with the method's result.      *)
(* A Rust panic (unwrap on None/Err, a slice at a non-boundary index, an    *)
(* out-of-range index) is the outcome "Panic", which aborts the call.       *)
(***************************************************************************)
EXTENDS Integers, Sequences, FiniteSets, TLC

VARIABLES
    scanner,      \* Scanner { source, tokens, start, current, line, errors }
    parser,       \* Parser { tokens, current } and the outcome of parse
    interpreter,  \* Interpreter { environment, output }
    had_error,    \* RLox.had_error
    reports,      \* what the error reporter / stderr has emitted, in order
    call          \* the call in progress: its input and its position

vars == <<scanner, parser, interpreter, had_error, reports, call>>

(***************************************************************************)
(* Bounds                                                                   *)
(***************************************************************************)
MaxIter == 3       \* iterations of one while loop the model follows
MaxStmts == 2      \* statements executed on one Interpreter (SpecInterp)
MaxFracDigits == 3 \* fractional digits printed for a non-integer Number
MaxSrcLen == 3     \* characters of a source text (SpecScan)
MaxTokens == 4     \* tokens before Eof of a token sequence (SpecParse)
MaxLines == 3      \* lines given to one REPL session (Spec)
MaxScopes == 3     \* scopes of the deepest scope stack (SpecEnv)

(***************************************************************************)
(* Literal values (expr.rs).  A Number is the rational <<num, den>> in      *)
(* lowest terms with den > 0; <<1,0>>, <<-1,0>> and <<0,0>> stand for       *)
(* +inf, -inf and NaN.  A String is a sequence of characters.               *)
(***************************************************************************)
Abs(x) == IF x < 0 THEN -x ELSE x

RECURSIVE Gcd(_, _)
Gcd(a, b) == IF b = 0 THEN a ELSE Gcd(b, a % b)

Sign(x) == IF x < 0 THEN -1 ELSE IF x > 0 THEN 1 ELSE 0

Norm(n, d) ==
    IF d = 0 THEN <<Sign(n), 0>>
    ELSE LET g == Gcd(Abs(n), Abs(d))
             s == IF d < 0 THEN -1 ELSE 1
         IN <<(s * n) \div g, (s * d) \div g>>

LitNumber(q) == [t |-> "Number", n |-> q]
LitString(s) == [t |-> "String", s |-> s]
LitBoolean(b) == [t |-> "Boolean", b |-> b]
LitNone == [t |-> "None"]
Num(i) == LitNumber(<<i, 1>>)

IsNaN(q) == q = <<0, 0>>

\* f64 arithmetic on the rational representation
NumAdd(a, b) ==
    IF IsNaN(a) \/ IsNaN(b) THEN <<0, 0>>
    ELSE IF a[2] = 0 /\ b[2] = 0 THEN (IF a[1] = b[1] THEN a ELSE <<0, 0>>)
    ELSE IF a[2] = 0 THEN a
    ELSE IF b[2] = 0 THEN b
    ELSE Norm(a[1] * b[2] + b[1] * a[2], a[2] * b[2])
NumNeg(a) == <<-a[1], a[2]>>
NumSub(a, b) == NumAdd(a, NumNeg(b))
NumMul(a, b) ==
    IF IsNaN(a) \/ IsNaN(b) THEN <<0, 0>>
    ELSE Norm(a[1] * b[1], a[2] * b[2])
\* a division that yields zero for a zero divisor
NumDiv_zero_for_zero(a, b) ==
    IF IsNaN(a) \/ IsNaN(b) THEN <<0, 0>>
    ELSE IF a[2] = 0 /\ b[2] = 0 THEN <<0, 0>>
    ELSE IF b[2] = 0 THEN <<0, 1>>
    ELSE IF b[1] = 0 THEN <<0, 1>>
    ELSE Norm(a[1] * b[2] * Sign(b[1]), a[2] * Abs(b[1]))
NumDiv(a, b) ==
    IF IsNaN(a) \/ IsNaN(b) THEN <<0, 0>>
    ELSE IF a[2] = 0 /\ b[2] = 0 THEN <<0, 0>>
    ELSE IF b[2] = 0 THEN <<0, 1>>
    ELSE IF b[1] = 0 THEN <<Sign(a[1]), 0>>
    ELSE Norm(a[1] * b[2] * Sign(b[1]), a[2] * Abs(b[1]))
NumLess(a, b) ==
    IF IsNaN(a) \/ IsNaN(b) THEN FALSE
    ELSE IF a[2] = 0 /\ b[2] = 0 THEN a[1] < b[1]
    ELSE IF a[2] = 0 THEN a[1] < 0
    ELSE IF b[2] = 0 THEN b[1] > 0
    ELSE a[1] * b[2] < b[1] * a[2]
NumEq(a, b) == ~IsNaN(a) /\ ~IsNaN(b) /\ a = b

\* #[derive(PartialEq)] on Literal
LitEq(l, r) ==
    /\ l.t = r.t
    /\ CASE l.t = "Number" -> NumEq(l.n, r.n)
         [] l.t = "String" -> l.s = r.s
         [] l.t = "Boolean" -> l.b = r.b
         [] OTHER -> TRUE

\* a truthiness that also takes Number 0 and the empty String for false
is_truthy_zero_is_false(literal) ==
    CASE literal.t = "Boolean" -> literal.b
      [] literal.t = "None" -> FALSE
      [] literal.t = "Number" -> literal.n # <<0, 1>>
      [] literal.t = "String" -> literal.s # <<>>
      [] OTHER -> TRUE

is_truthy(literal) ==
    CASE literal.t = "Boolean" -> literal.b
      [] literal.t = "None" -> FALSE
      [] OTHER -> TRUE

\* an equality that compares the kinds of the values only
is_equal_by_kind(left, right) == left.t = right.t

is_equal(left, right) ==
    IF left.t = "None" /\ right.t = "None" THEN TRUE
    ELSE IF left.t = "None" THEN FALSE
    ELSE LitEq(left, right)

(***************************************************************************)
(* Printable form of a value (Literal::printable, Display for f64).         *)
(***************************************************************************)
Digit(d) == <<"0", "1", "2", "3", "4", "5", "6", "7", "8", "9">>[d + 1]

RECURSIVE NatText(_)
NatText(n) == IF n < 10 THEN <<Digit(n)>> ELSE NatText(n \div 10) \o <<Digit(n % 10)>>

RECURSIVE FracText(_, _, _)
FracText(r, d, k) ==
    IF r = 0 \/ k = 0 THEN <<>>
    ELSE <<Digit((r * 10) \div d)>> \o FracText((r * 10) % d, d, k - 1)

NumText(q) ==
    IF q[2] = 0
    THEN (IF q[1] = 0 THEN <<"N", "a", "N">>
          ELSE IF q[1] > 0 THEN <<"i", "n", "f">> ELSE <<"-", "i", "n", "f">>)
    ELSE LET a == Abs(q[1])
             ip == NatText(a \div q[2])
             fp == FracText(a % q[2], q[2], MaxFracDigits)
         IN (IF q[1] < 0 THEN <<"-">> ELSE <<>>) \o ip
            \o (IF fp = <<>> THEN <<>> ELSE <<".">> \o fp)

printable(v) ==
    CASE v.t = "Number" -> NumText(v.n)
      [] v.t = "String" -> v.s
      [] v.t = "Boolean" -> (IF v.b THEN <<"t", "r", "u", "e">> ELSE <<"f", "a", "l", "s", "e">>)
      [] OTHER -> <<"n", "i", "l">>

(***************************************************************************)
(* Tokens (token.rs)                                                        *)
(***************************************************************************)
TokNone == [t |-> "None"]
Token(kind, lexeme, literal, line) ==
    [kind |-> kind, lexeme |-> lexeme, literal |-> literal, line |-> line]

\* RuntimeError { message, token }; token is <<>> for Option::None
RuntimeError(message, token) == [message |-> message, token |-> token]

(***************************************************************************)
(* Environment (environment.rs): a stack of scopes, each a map from a name  *)
(* (the lexeme) to a value.  A map is a sequence of <<name, value>> pairs   *)
(* with distinct names, kept in insertion order of first definition.        *)
(***************************************************************************)
EmptyMap == <<>>
MapHas(m, name) == \E i \in 1..Len(m) : m[i][1] = name
MapGet(m, name) == m[CHOOSE i \in 1..Len(m) : m[i][1] = name][2]
MapInsert(m, name, value) ==
    IF MapHas(m, name)
    THEN [i \in 1..Len(m) |-> IF m[i][1] = name THEN <<name, value>> ELSE m[i]]
    ELSE Append(m, <<name, value>>)

Environment_new == [scopes |-> <<EmptyMap>>]

add_scope(env) == [env EXCEPT !.scopes = Append(@, EmptyMap)]

\* self.scopes.pop().unwrap(): panics on the empty stack
pop_scope(env) ==
    IF Len(env.scopes) = 0
    THEN [st |-> "Panic", env |-> env]
    ELSE [st |-> "Ok", env |-> [env EXCEPT !.scopes = SubSeq(@, 1, Len(@) - 1)]]

\* self.scopes.last_mut().unwrap().insert(name, value)
define(env, name, value) ==
    IF Len(env.scopes) = 0
    THEN [st |-> "Panic", env |-> env]
    ELSE [st |-> "Ok",
          env |-> [env EXCEPT !.scopes[Len(env.scopes)] = MapInsert(@, name, value)]]

\* the innermost scope that has the name, 0 when none has
ScopeOf(env, lexeme) ==
    LET has == {i \in 1..Len(env.scopes) : MapHas(env.scopes[i], lexeme)}
    IN IF has = {} THEN 0 ELSE CHOOSE i \in has : \A j \in has : j <= i

get(env, name) ==
    LET i == ScopeOf(env, name.lexeme)
    IN IF i = 0
       THEN [st |-> "Err", err |-> RuntimeError("Undefined variable", <<name>>)]
       ELSE [st |-> "Ok", v |-> MapGet(env.scopes[i], name.lexeme)]

\* assign that writes to the innermost scope, as define does, whatever holds the name
assign_env_as_define(env, name, value) ==
    [st |-> "Ok",
     env |-> [env EXCEPT !.scopes[Len(env.scopes)] = MapInsert(@, name.lexeme, value)]]

assign_env(env, name, value) ==
    LET i == ScopeOf(env, name.lexeme)
    IN IF i = 0
       THEN [st |-> "Err", env |-> env, err |-> RuntimeError("Undefined variable", <<name>>)]
       ELSE [st |-> "Ok",
             env |-> [env EXCEPT !.scopes[i] = MapInsert(@, name.lexeme, value)]]

(***************************************************************************)
(* AST (expr.rs, stmt.rs)                                                   *)
(***************************************************************************)
ExprLiteral(v) == [k |-> "Literal", value |-> v]
Grouping(e) == [k |-> "Grouping", expression |-> e]
Unary(operator, right) == [k |-> "Unary", operator |-> operator, right |-> right]
Binary(left, operator, right) ==
    [k |-> "Binary", left |-> left, operator |-> operator, right |-> right]
Variable(name) == [k |-> "Variable", name |-> name]
Assign(name, value) == [k |-> "Assign", name |-> name, value |-> value]
Logical(left, operator, right) ==
    [k |-> "Logical", left |-> left, operator |-> operator, right |-> right]

StmtExpr(e) == [k |-> "Expr", expression |-> e]
StmtPrint(e) == [k |-> "Print", expression |-> e]
StmtVar(name, initializer) == [k |-> "Var", name |-> name, initializer |-> initializer]
StmtBlock(stmts) == [k |-> "Block", statements |-> stmts]
\* else_branch is <<>> for None and <<s>> for Some(s)
StmtIf(condition, then_branch, else_branch) ==
    [k |-> "If", condition |-> condition, then_branch |-> then_branch,
     else_branch |-> else_branch]
StmtWhile(condition, body) == [k |-> "While", condition |-> condition, body |-> body]

(***************************************************************************)
(* Interpreter (interpreter.rs).  I is the Interpreter's state; a result    *)
(* carries the state the call left behind, whatever the outcome.            *)
(***************************************************************************)
\* output holds the lines written to the sink; sink_ok tells whether the
\* injected sink accepts a write (a Vec<u8> or stdout does)
Interpreter_new(env) == [environment |-> env, output |-> <<>>, sink_ok |-> TRUE]

Ok(I, v) == [st |-> "Ok", I |-> I, v |-> v]
Err(I, e) == [st |-> "Err", I |-> I, err |-> e]
Panic(I) == [st |-> "Panic", I |-> I]
\* the model stops following a loop after MaxIter iterations
OutOfFuel(I) == [st |-> "Fuel", I |-> I]

RECURSIVE evaluate_expr(_, _), execute_stmt(_, _), exec_stmts(_, _, _),
          while_loop(_, _, _, _), block_stmt(_, _)

\* unary whose minus hands back an operand that is no Number
unary_minus_passes(I, operator, right) ==
    LET r == evaluate_expr(I, right)
    IN IF r.st # "Ok" THEN r
       ELSE CASE operator.kind = "Minus" ->
                   IF r.v.t = "Number" THEN Ok(r.I, LitNumber(NumNeg(r.v.n))) ELSE r
              [] operator.kind = "Bang" ->
                   IF is_truthy(r.v) THEN Ok(r.I, LitBoolean(FALSE))
                   ELSE Ok(r.I, LitBoolean(TRUE))
              [] OTHER -> Err(r.I, RuntimeError("Unsupported operator kind", <<operator>>))

unary(I, operator, right) ==
    LET r == evaluate_expr(I, right)
    IN IF r.st # "Ok" THEN r
       ELSE CASE operator.kind = "Minus" ->
                   IF r.v.t = "Number"
                   THEN Ok(r.I, LitNumber(NumNeg(r.v.n)))
                   ELSE Err(r.I, RuntimeError("Operand must be a number", <<operator>>))
              [] operator.kind = "Bang" ->
                   IF is_truthy(r.v) THEN Ok(r.I, LitBoolean(FALSE))
                   ELSE Ok(r.I, LitBoolean(TRUE))
              [] OTHER -> Err(r.I, RuntimeError("Unsupported operator kind", <<operator>>))

\* binary with the order of the operands and the operators of a String pair
\* as parameters: right_first evaluates the right operand before the left
\* one, strings_compare lets == and != compare two Strings
binary_variant(I, operator, left, right, right_first, strings_compare) ==
    LET first == evaluate_expr(I, IF right_first THEN right ELSE left)
    IN IF first.st # "Ok" THEN first
       ELSE LET second == evaluate_expr(first.I, IF right_first THEN left ELSE right)
                l == IF right_first THEN second ELSE first
                r == IF right_first THEN first ELSE second
            IN IF second.st # "Ok" THEN second
               ELSE LET J == second.I
                        a == l.v
                        b == r.v
                        kind == operator.kind
                        bad == Err(J, RuntimeError("Unsupported binary operator", <<operator>>))
                    IN CASE a.t = "Number" /\ b.t = "Number" ->
                              (CASE kind = "Greater" -> Ok(J, LitBoolean(NumLess(b.n, a.n)))
                                 [] kind = "GreaterEqual" ->
                                      Ok(J, LitBoolean(NumLess(b.n, a.n) \/ NumEq(a.n, b.n)))
                                 [] kind = "Less" -> Ok(J, LitBoolean(NumLess(a.n, b.n)))
                                 [] kind = "LessEqual" ->
                                      Ok(J, LitBoolean(NumLess(a.n, b.n) \/ NumEq(a.n, b.n)))
                                 [] kind = "BangEqual" -> Ok(J, LitBoolean(~NumEq(a.n, b.n)))
                                 [] kind = "EqualEqual" -> Ok(J, LitBoolean(NumEq(a.n, b.n)))
                                 [] kind = "Plus" -> Ok(J, LitNumber(NumAdd(a.n, b.n)))
                                 [] kind = "Minus" -> Ok(J, LitNumber(NumSub(a.n, b.n)))
                                 [] kind = "Slash" -> Ok(J, LitNumber(NumDiv(a.n, b.n)))
                                 [] kind = "Star" -> Ok(J, LitNumber(NumMul(a.n, b.n)))
                                 [] OTHER -> bad)
                         [] a.t = "String" /\ b.t = "String" /\ (~strings_compare \/ kind = "Plus") ->
                              (CASE kind = "Plus" -> Ok(J, LitString(a.s \o b.s))
                                 [] OTHER -> bad)
                         [] OTHER ->
                              (CASE kind = "BangEqual" -> Ok(J, LitBoolean(~is_equal(a, b)))
                                 [] kind = "EqualEqual" -> Ok(J, LitBoolean(is_equal(a, b)))
                                 [] OTHER -> bad)

binary_right_first(I, operator, left, right) ==
    binary_variant(I, operator, left, right, TRUE, FALSE)

binary_compares_strings(I, operator, left, right) ==
    binary_variant(I, operator, left, right, FALSE, TRUE)

binary(I, operator, left, right) ==
    LET l == evaluate_expr(I, left)
    IN IF l.st # "Ok" THEN l
       ELSE LET r == evaluate_expr(l.I, right)
            IN IF r.st # "Ok" THEN r
               ELSE LET J == r.I
                        a == l.v
                        b == r.v
                        kind == operator.kind
                        bad == Err(J, RuntimeError("Unsupported binary operator", <<operator>>))
                    IN CASE a.t = "Number" /\ b.t = "Number" ->
                              (CASE kind = "Greater" -> Ok(J, LitBoolean(NumLess(b.n, a.n)))
                                 [] kind = "GreaterEqual" ->
                                      Ok(J, LitBoolean(NumLess(b.n, a.n) \/ NumEq(a.n, b.n)))
                                 [] kind = "Less" -> Ok(J, LitBoolean(NumLess(a.n, b.n)))
                                 [] kind = "LessEqual" ->
                                      Ok(J, LitBoolean(NumLess(a.n, b.n) \/ NumEq(a.n, b.n)))
                                 [] kind = "BangEqual" -> Ok(J, LitBoolean(~NumEq(a.n, b.n)))
                                 [] kind = "EqualEqual" -> Ok(J, LitBoolean(NumEq(a.n, b.n)))
                                 [] kind = "Plus" -> Ok(J, LitNumber(NumAdd(a.n, b.n)))
                                 [] kind = "Minus" -> Ok(J, LitNumber(NumSub(a.n, b.n)))
                                 [] kind = "Slash" -> Ok(J, LitNumber(NumDiv(a.n, b.n)))
                                 [] kind = "Star" -> Ok(J, LitNumber(NumMul(a.n, b.n)))
                                 [] OTHER -> bad)
                         [] a.t = "String" /\ b.t = "String" ->
                              (CASE kind = "Plus" -> Ok(J, LitString(a.s \o b.s))
                                 [] OTHER -> bad)
                         [] OTHER ->
                              (CASE kind = "BangEqual" -> Ok(J, LitBoolean(~is_equal(a, b)))
                                 [] kind = "EqualEqual" -> Ok(J, LitBoolean(is_equal(a, b)))
                                 [] OTHER -> bad)

var_expr(I, name) ==
    LET g == get(I.environment, name)
    IN IF g.st = "Ok" THEN Ok(I, g.v) ELSE Err(I, g.err)

assign(I, name, value) ==
    LET r == evaluate_expr(I, value)
    IN IF r.st # "Ok" THEN r
       ELSE LET a == assign_env(r.I.environment, name, r.v)
            IN IF a.st # "Ok" THEN Err(r.I, a.err)
               ELSE Ok([r.I EXCEPT !.environment = a.env], LitNone)

\* logical that evaluates both operands before it looks at the left one
logical_eager(I, operator, left, right) ==
    LET l == evaluate_expr(I, left)
    IN IF l.st # "Ok" THEN l
       ELSE LET r == evaluate_expr(l.I, right)
            IN IF r.st # "Ok" THEN r
               ELSE CASE operator.kind = "And" ->
                           IF ~is_truthy(l.v) THEN Ok(r.I, l.v) ELSE r
                      [] operator.kind = "Or" ->
                           IF is_truthy(l.v) THEN Ok(r.I, l.v) ELSE r
                      [] OTHER ->
                           Err(l.I, RuntimeError("Unsupported logical operator", <<operator>>))

logical(I, operator, left, right) ==
    LET l == evaluate_expr(I, left)
    IN IF l.st # "Ok" THEN l
       ELSE CASE operator.kind = "And" ->
                   IF ~is_truthy(l.v) THEN l ELSE evaluate_expr(l.I, right)
              [] operator.kind = "Or" ->
                   IF is_truthy(l.v) THEN l ELSE evaluate_expr(l.I, right)
              [] OTHER -> Err(l.I, RuntimeError("Unsupported logical operator", <<operator>>))

evaluate_expr(I, expr) ==
    CASE expr.k = "Literal" -> Ok(I, expr.value)
      [] expr.k = "Grouping" -> evaluate_expr(I, expr.expression)
      [] expr.k = "Unary" -> unary(I, expr.operator, expr.right)
      [] expr.k = "Binary" -> binary(I, expr.operator, expr.left, expr.right)
      [] expr.k = "Variable" -> var_expr(I, expr.name)
      [] expr.k = "Assign" -> assign(I, expr.name, expr.value)
      [] expr.k = "Logical" -> logical(I, expr.operator, expr.left, expr.right)

if_stmt(I, condition, then_branch, else_branch) ==
    LET c == evaluate_expr(I, condition)
    IN IF c.st # "Ok" THEN c
       ELSE IF is_truthy(c.v) THEN execute_stmt(c.I, then_branch)
       ELSE IF else_branch # <<>> THEN execute_stmt(c.I, else_branch[1])
       ELSE Ok(c.I, LitNone)

\* the loop of while_stmt, entered with `fuel` iterations left to follow
while_loop(I, condition, body, fuel) ==
    LET c == evaluate_expr(I, condition)
    IN IF c.st # "Ok" THEN c
       ELSE IF ~is_truthy(c.v) THEN Ok(c.I, LitNone)
       ELSE IF fuel = 0 THEN OutOfFuel(c.I)
       ELSE LET b == execute_stmt(c.I, body)
            IN IF b.st # "Ok" THEN b
               ELSE while_loop(b.I, condition, body, fuel - 1)

\* a while_stmt that runs the body once before it evaluates the condition
while_stmt_body_first(I, condition, body) ==
    LET b == execute_stmt(I, body)
    IN IF b.st # "Ok" THEN b ELSE while_loop(b.I, condition, body, MaxIter)

while_stmt(I, condition, body) == while_loop(I, condition, body, MaxIter)

\* for stmt in stmts { self.execute_stmt(stmt)?; } from index i on
exec_stmts(I, stmts, i) ==
    IF i > Len(stmts) THEN Ok(I, LitNone)
    ELSE LET r == execute_stmt(I, stmts[i])
         IN IF r.st # "Ok" THEN r ELSE exec_stmts(r.I, stmts, i + 1)

\* block_stmt without its add_scope: the pop has no matching push
block_stmt_no_push(I, stmts) ==
    LET r == exec_stmts(I, stmts, 1)
    IN IF r.st # "Ok" THEN r
       ELSE LET p == pop_scope(r.I.environment)
            IN IF p.st # "Ok" THEN Panic(r.I)
               ELSE Ok([r.I EXCEPT !.environment = p.env], LitNone)

block_stmt(I, stmts) ==
    LET r == exec_stmts([I EXCEPT !.environment = add_scope(@)], stmts, 1)
    IN IF r.st # "Ok" THEN r
       ELSE LET p == pop_scope(r.I.environment)
            IN IF p.st # "Ok" THEN Panic(r.I)
               ELSE Ok([r.I EXCEPT !.environment = p.env], LitNone)

var_stmt(I, name, initializer) ==
    LET r == evaluate_expr(I, initializer)
    IN IF r.st # "Ok" THEN r
       ELSE LET d == define(r.I.environment, name.lexeme, r.v)
            IN IF d.st # "Ok" THEN Panic(r.I)
               ELSE Ok([r.I EXCEPT !.environment = d.env], LitNone)

\* a Print that drops the error of the write and goes on
print_stmt_drops_failure(I, expression) ==
    LET r == evaluate_expr(I, expression)
    IN IF r.st # "Ok" THEN r
       ELSE IF ~r.I.sink_ok THEN Ok(r.I, LitNone)
       ELSE Ok([r.I EXCEPT !.output = Append(@, printable(r.v))], LitNone)

\* writeln!(self.output, "{}", value.printable()).map_err(..)?
print_stmt(I, expression) ==
    LET r == evaluate_expr(I, expression)
    IN IF r.st # "Ok" THEN r
       ELSE IF ~r.I.sink_ok
       THEN Err(r.I, RuntimeError("failed to write output for expr", <<>>))
       ELSE Ok([r.I EXCEPT !.output = Append(@, printable(r.v))], LitNone)

execute_stmt(I, stmt) ==
    CASE stmt.k = "Expr" ->
           (LET r == evaluate_expr(I, stmt.expression)
            IN IF r.st # "Ok" THEN r ELSE Ok(r.I, LitNone))
      [] stmt.k = "If" -> if_stmt(I, stmt.condition, stmt.then_branch, stmt.else_branch)
      [] stmt.k = "Print" -> print_stmt(I, stmt.expression)
      [] stmt.k = "Var" -> var_stmt(I, stmt.name, stmt.initializer)
      [] stmt.k = "Block" -> block_stmt(I, stmt.statements)
      [] stmt.k = "While" -> while_stmt(I, stmt.condition, stmt.body)

interpret(I, stmts) == exec_stmts(I, stmts, 1)

(***************************************************************************)
(* Source text (scanner.rs works on a &str by byte offset).  A character is *)
(* a string; "U+xxxx" names a non-ASCII character, which takes more than    *)
(* one byte in UTF-8.  The text is the sequence of its bytes: the first     *)
(* byte of a character is the character, its other bytes are Cont.          *)
(***************************************************************************)
Cont == "cont"
Width(c) ==
    CASE c \in {"U+00E9", "U+0130", "U+0161"} -> 2
      [] c = "U+20AC" -> 3
      [] OTHER -> 1

\* `c as u8`: the low byte of the code point
AsU8(c) ==
    CASE c = "U+00E9" -> "0xE9"
      [] c = "U+0130" -> "0"
      [] c = "U+0161" -> "a"
      [] c = "U+20AC" -> "0xAC"
      [] OTHER -> c

RECURSIVE Utf8(_)
Utf8(chars) ==
    IF chars = <<>> THEN <<>>
    ELSE <<Head(chars)>> \o [i \in 1..(Width(Head(chars)) - 1) |-> Cont] \o Utf8(Tail(chars))

Digits == {"0", "1", "2", "3", "4", "5", "6", "7", "8", "9"}
Letters ==
    {"a", "b", "c", "d", "e", "f", "g", "h", "i", "j", "k", "l", "m",
     "n", "o", "p", "q", "r", "s", "t", "u", "v", "w", "x", "y", "z",
     "A", "B", "C", "D", "E", "F", "G", "H", "I", "J", "K", "L", "M",
     "N", "O", "P", "Q", "R", "S", "T", "U", "V", "W", "X", "Y", "Z"}

is_digit(c) == c \in Digits
is_alpha(c) == c \in Letters \/ c = "_"
is_alpha_numeric(c) == is_alpha(c) \/ is_digit(c)

\* is i a char boundary of the text (0 <= i <= len)
IsBoundary(src, i) == i >= 0 /\ i <= Len(src) /\ (i = Len(src) \/ src[i + 1] # Cont)

\* self.source[i..].chars().next(): "None" at the end, a panic off a boundary
CharAt(src, i) ==
    IF ~IsBoundary(src, i) THEN [st |-> "Panic"]
    ELSE IF i = Len(src) THEN [st |-> "None"]
    ELSE [st |-> "Some", c |-> src[i + 1]]

\* self.source[i..].chars().nth(1)
CharAfter(src, i) ==
    LET c == CharAt(src, i)
    IN IF c.st # "Some" THEN c ELSE CharAt(src, i + Width(c.c))

\* &self.source[a..b] as the characters it holds
Slice(src, a, b) ==
    IF a > b \/ ~IsBoundary(src, a) \/ ~IsBoundary(src, b) THEN [st |-> "Panic"]
    ELSE [st |-> "Ok", text |-> SelectSeq(SubSeq(src, a + 1, b), LAMBDA x : x # Cont)]

\* str::parse::<f64> on digits [ "." digits ]
DigitVal(c) == CHOOSE d \in 0..9 : Digit(d) = c
RECURSIVE DigitsVal(_, _)
DigitsVal(text, acc) ==
    IF text = <<>> THEN acc ELSE DigitsVal(Tail(text), acc * 10 + DigitVal(Head(text)))
RECURSIVE Pow10(_)
Pow10(k) == IF k = 0 THEN 1 ELSE 10 * Pow10(k - 1)
ParseNumber(text) ==
    IF \E i \in 1..Len(text) : text[i] \notin Digits \cup {"."} THEN [st |-> "Panic"]
    ELSE LET dots == {i \in 1..Len(text) : text[i] = "."}
         IN IF dots = {}
            THEN [st |-> "Ok", n |-> <<DigitsVal(text, 0), 1>>]
            ELSE LET d == CHOOSE i \in dots : TRUE
                     ip == SubSeq(text, 1, d - 1)
                     fp == SubSeq(text, d + 1, Len(text))
                 IN [st |-> "Ok",
                     n |-> Norm(DigitsVal(ip \o fp, 0), Pow10(Len(fp)))]

(***************************************************************************)
(* Tokens of the scanner (token.rs)                                         *)
(***************************************************************************)
TokString(text) == [t |-> "String", s |-> text]
TokNumber(q) == [t |-> "Number", n |-> q]

KEYWORD_MAP(text) ==
    CASE text = <<"a", "n", "d">> -> "And"
      [] text = <<"c", "l", "a", "s", "s">> -> "Class"
      [] text = <<"e", "l", "s", "e">> -> "Else"
      [] text = <<"f", "a", "l", "s", "e">> -> "False"
      [] text = <<"f", "u", "n">> -> "Fun"
      [] text = <<"f", "o", "r">> -> "For"
      [] text = <<"i", "f">> -> "If"
      [] text = <<"n", "i", "l">> -> "Nil"
      [] text = <<"o", "r">> -> "Or"
      [] text = <<"p", "r", "i", "n", "t">> -> "Print"
      [] text = <<"r", "e", "t", "u", "r", "n">> -> "Return"
      [] text = <<"s", "u", "p", "e", "r">> -> "Super"
      [] text = <<"t", "h", "i", "s">> -> "This"
      [] text = <<"t", "r", "u", "e">> -> "True"
      [] text = <<"v", "a", "r">> -> "Var"
      [] text = <<"w", "h", "i", "l", "e">> -> "While"
      [] OTHER -> "Identifier"

SingleKind(c) ==
    CASE c = "(" -> "LeftParen"
      [] c = ")" -> "RightParen"
      [] c = "{" -> "LeftBrace"
      [] c = "}" -> "RightBrace"
      [] c = "," -> "Comma"
      [] c = "." -> "Dot"
      [] c = "-" -> "Minus"
      [] c = "+" -> "Plus"
      [] c = ";" -> "Semicolon"
      [] c = "*" -> "Star"
SingleChars == {"(", ")", "{", "}", ",", ".", "-", "+", ";", "*"}

\* the kinds of the one- and two-character operators
OneKind(c) ==
    CASE c = "!" -> "Bang" [] c = "=" -> "Equal" [] c = "<" -> "Less" [] c = ">" -> "Greater"
TwoKind(c) ==
    CASE c = "!" -> "BangEqual" [] c = "=" -> "EqualEqual"
      [] c = "<" -> "LessEqual" [] c = ">" -> "GreaterEqual"

(***************************************************************************)
(* Scanner (scanner.rs).  start and current are byte offsets from 0.        *)
(* reported holds the calls of RLox::error made by the scanner.             *)
(***************************************************************************)
Scanner_new(source) ==
    [source |-> source, tokens |-> <<>>, start |-> 0, current |-> 0, line |-> 1,
     errors |-> <<>>, reported |-> <<>>, st |-> "Scanning"]

ScanPanic(s) == [s EXCEPT !.st = "Panic"]

sc_is_at_end(s) == s.current >= Len(s.source)

\* current += 1, then the character at the old offset, unwrapped
sc_advance(s) ==
    LET c == CharAt(s.source, s.current)
        t == [s EXCEPT !.current = @ + 1]
    IN IF c.st = "Some" THEN [s |-> t, st |-> "Ok", c |-> c.c]
       ELSE [s |-> ScanPanic(t), st |-> "Panic"]

sc_peek(s) == CharAt(s.source, s.current)
sc_peek_next(s) == CharAfter(s.source, s.current)

char_match(s, expected) ==
    IF sc_is_at_end(s) THEN [st |-> "Ok", b |-> FALSE]
    ELSE LET c == CharAt(s.source, s.current)
         IN IF c.st # "Some" THEN [st |-> "Panic"]
            ELSE [st |-> "Ok", b |-> c.c = expected]

\* the token's lexeme is &self.source[self.start..self.current]
add_token(s, kind, literal) ==
    LET lex == Slice(s.source, s.start, s.current)
    IN IF lex.st # "Ok" THEN ScanPanic(s)
       ELSE [s EXCEPT !.tokens = Append(@, Token(kind, lex.text, literal, s.line))]

\* add_token(kind, Literal::String(&self.source[self.start..self.current]))
add_lexeme_token(s, kind) ==
    LET lex == Slice(s.source, s.start, s.current)
    IN IF lex.st # "Ok" THEN ScanPanic(s)
       ELSE add_token(s, kind, TokString(lex.text))

\* RLox::error(line, message)
sc_error(s, message) ==
    [s EXCEPT !.reported = Append(@,
        [via |-> "report", line |-> s.line, where |-> <<>>, message |-> message])]

RECURSIVE skip_comment(_), string_body(_), digits_run(_), alnum_run(_)

\* while !self.is_at_end() && self.peek() != '\n' { self.advance(); }
skip_comment(s) ==
    IF sc_is_at_end(s) THEN s
    ELSE LET c == sc_peek(s)
         IN IF c.st # "Some" THEN ScanPanic(s)
            ELSE IF c.c = "\n" THEN s
            ELSE LET a == sc_advance(s)
                 IN IF a.st # "Ok" THEN a.s ELSE skip_comment(a.s)

\* the loop of string()
string_body(s) ==
    IF sc_is_at_end(s) THEN s
    ELSE LET c == sc_peek(s)
         IN IF c.st # "Some" THEN ScanPanic(s)
            ELSE IF c.c = "\"" THEN s
            ELSE LET t == IF c.c = "\n" THEN [s EXCEPT !.line = @ + 1] ELSE s
                     a == sc_advance(t)
                 IN IF a.st # "Ok" THEN a.s ELSE string_body(a.s)

string(s0) ==
    LET s1 == string_body(s0)
    IN IF s1.st = "Panic" THEN s1
       ELSE LET s2 == IF sc_is_at_end(s1) THEN sc_error(s1, "Unterminated string.") ELSE s1
                a == sc_advance(s2)
            IN IF a.st # "Ok" THEN a.s
               ELSE LET value == Slice(a.s.source, a.s.start + 1, a.s.current - 1)
                    IN IF value.st # "Ok" THEN ScanPanic(a.s)
                       ELSE add_token(a.s, "String", TokString(value.text))

\* while !self.is_at_end() && is_digit(self.peek() as u8) { self.advance(); }
digits_run(s) ==
    IF sc_is_at_end(s) THEN s
    ELSE LET c == sc_peek(s)
         IN IF c.st # "Some" THEN ScanPanic(s)
            ELSE IF ~is_digit(AsU8(c.c)) THEN s
            ELSE LET a == sc_advance(s)
                 IN IF a.st # "Ok" THEN a.s ELSE digits_run(a.s)

\* !is_at_end() && peek() == '.' && is_digit(peek_next() as u8), left to right
has_fraction(s) ==
    IF sc_is_at_end(s) THEN [st |-> "Ok", b |-> FALSE]
    ELSE LET c == sc_peek(s)
         IN IF c.st # "Some" THEN [st |-> "Panic"]
            ELSE IF c.c # "." THEN [st |-> "Ok", b |-> FALSE]
            ELSE LET n == sc_peek_next(s)
                 IN IF n.st # "Some" THEN [st |-> "Panic"]
                    ELSE [st |-> "Ok", b |-> is_digit(AsU8(n.c))]

number(s0) ==
    LET s1 == digits_run(s0)
    IN IF s1.st = "Panic" THEN s1
       ELSE LET f == has_fraction(s1)
            IN IF f.st # "Ok" THEN ScanPanic(s1)
               ELSE LET s2 == IF f.b
                              THEN (LET a == sc_advance(s1)
                                    IN IF a.st # "Ok" THEN a.s ELSE digits_run(a.s))
                              ELSE s1
                    IN IF s2.st = "Panic" THEN s2
                       ELSE LET lex == Slice(s2.source, s2.start, s2.current)
                            IN IF lex.st # "Ok" THEN ScanPanic(s2)
                               ELSE LET n == ParseNumber(lex.text)
                                    IN IF n.st # "Ok" THEN ScanPanic(s2)
                                       ELSE add_token(s2, "Number", TokNumber(n.n))

\* while !self.is_at_end() && is_alpha_numeric(self.peek() as u8) { self.advance(); }
alnum_run(s) ==
    IF sc_is_at_end(s) THEN s
    ELSE LET c == sc_peek(s)
         IN IF c.st # "Some" THEN ScanPanic(s)
            ELSE IF ~is_alpha_numeric(AsU8(c.c)) THEN s
            ELSE LET a == sc_advance(s)
                 IN IF a.st # "Ok" THEN a.s ELSE alnum_run(a.s)

identifier(s0) ==
    LET s1 == alnum_run(s0)
    IN IF s1.st = "Panic" THEN s1
       ELSE LET text == Slice(s1.source, s1.start, s1.current)
            IN IF text.st # "Ok" THEN ScanPanic(s1)
               ELSE add_token(s1, KEYWORD_MAP(text.text), TokString(text.text))

\* '!' | '=' | '<' | '>': two characters when '=' follows
operator_token(s, c) ==
    LET m == char_match(s, "=")
    IN IF m.st # "Ok" THEN ScanPanic(s)
       ELSE IF m.b
       THEN (LET a == sc_advance(s)
             IN IF a.st # "Ok" THEN a.s ELSE add_lexeme_token(a.s, TwoKind(c)))
       ELSE add_lexeme_token(s, OneKind(c))

scan_token(s0) ==
    LET a == sc_advance(s0)
    IN IF a.st # "Ok" THEN a.s
       ELSE LET s == a.s
                c == a.c
            IN CASE c \in SingleChars -> add_lexeme_token(s, SingleKind(c))
                 [] c \in {"!", "=", "<", ">"} -> operator_token(s, c)
                 [] c = "/" ->
                      (LET m == char_match(s, "/")
                       IN IF m.st # "Ok" THEN ScanPanic(s)
                          ELSE IF m.b THEN skip_comment(s)
                          ELSE add_lexeme_token(s, "Slash"))
                 [] c \in {" ", "\r", "\t"} -> s
                 [] c = "\n" -> [s EXCEPT !.line = @ + 1]
                 [] c = "\"" -> string(s)
                 [] OTHER ->
                      IF is_digit(AsU8(c)) THEN number(s)
                      ELSE IF is_alpha(AsU8(c)) THEN identifier(s)
                      ELSE sc_error([s EXCEPT !.errors = Append(@, "Unexpected character")],
                                    "Unexpected character")

\* one iteration of the loop of scan_tokens
scan_step(s) == scan_token([s EXCEPT !.start = s.current])

\* the Eof token pushed after the loop
scan_eof(s) ==
    [s EXCEPT !.tokens = Append(@, Token("Eof", <<>>, TokNone, s.line)), !.st = "Done"]

RECURSIVE scan_loop(_)
scan_loop(s) ==
    IF s.st = "Panic" THEN s
    ELSE IF sc_is_at_end(s) THEN scan_eof(s)
    ELSE scan_loop(scan_step(s))

scan_tokens(source) == scan_loop(Scanner_new(source))

(***************************************************************************)
(* Parser (parser.rs).  current is an index from 0 into tokens.  The        *)
(* tokens end with Eof and advance never steps over it, so peek and         *)
(* previous always index inside the vector.  reported holds the calls of    *)
(* error_token, syncs counts the calls of synchronize.                      *)
(***************************************************************************)
Parser_new(tokens) == [tokens |-> tokens, current |-> 0, reported |-> <<>>, syncs |-> 0]

POk(p, v) == [st |-> "Ok", failed |-> FALSE, p |-> p, v |-> v]
PErr(p, msg) == [st |-> "Err", failed |-> TRUE, p |-> p, msg |-> msg]
PPanic(p) == [st |-> "Panic", failed |-> TRUE, p |-> p]

peek(p) == p.tokens[p.current + 1]
previous(p) == p.tokens[p.current]
at_end(p) == peek(p).kind = "Eof"
check(p, kind) == IF at_end(p) THEN FALSE ELSE peek(p).kind = kind
advance(p) == IF ~at_end(p) THEN [p EXCEPT !.current = @ + 1] ELSE p

\* error_token(token, message): report(line, " at end" | " at '<lexeme>'", message)
error_token(p, token, message) ==
    [p EXCEPT !.reported = Append(@,
        [via |-> "report", line |-> token.line,
         where |-> IF token.kind = "Eof" THEN <<"end">> ELSE token.lexeme,
         message |-> message])]

match_kinds(p, kinds) ==
    IF \E i \in 1..Len(kinds) : check(p, kinds[i])
    THEN [p |-> advance(p), b |-> TRUE]
    ELSE [p |-> p, b |-> FALSE]

consume(p, kind, message) ==
    IF check(p, kind) THEN POk(advance(p), previous(advance(p)))
    ELSE PErr(error_token(p, peek(p), message), message)

SyncKinds == {"Class", "Fun", "Var", "For", "If", "While", "Print", "Return"}

RECURSIVE sync_loop(_)
sync_loop(p) ==
    IF at_end(p) THEN p
    ELSE IF previous(p).kind = "Semicolon" THEN p
    ELSE IF peek(p).kind \in SyncKinds THEN p
    ELSE sync_loop(advance(p))

\* a synchronize that discards the offending token only
synchronize_one_token(p) == advance([p EXCEPT !.syncs = @ + 1])

synchronize(p) == sync_loop(advance([p EXCEPT !.syncs = @ + 1]))

\* Result::inspect_err(|_| self.synchronize())
inspect_err_sync(r) == IF r.st = "Err" THEN [r EXCEPT !.p = synchronize(r.p)] ELSE r

\* the operators of one precedence level, and how the level builds its node
LevelKinds(level) ==
    CASE level = "or" -> <<"Or">>
      [] level = "and" -> <<"And">>
      [] level = "equality" -> <<"EqualEqual", "BangEqual">>
      [] level = "comparison" -> <<"Greater", "GreaterEqual", "Less", "LessEqual">>
      [] level = "term" -> <<"Minus", "Plus">>
      [] level = "factor" -> <<"Slash", "Star">>
LevelNode(level, left, operator, right) ==
    IF level \in {"or", "and"} THEN Logical(left, operator, right)
    ELSE Binary(left, operator, right)

\* self.<rule>(): every call of one grammar rule from another goes through descend
RECURSIVE descend(_, _), level(_, _), level_loop(_, _, _), block_loop(_, _)

\* the levels with term and factor in each other's place
operand_term_below_factor(p, lv) ==
    CASE lv = "or" -> level(p, "and")
      [] lv = "and" -> level(p, "equality")
      [] lv = "equality" -> level(p, "comparison")
      [] lv = "comparison" -> level(p, "factor")
      [] lv = "factor" -> level(p, "term")
      [] lv = "term" -> descend("p_unary", p)

\* the operand of a level is the next tighter level
operand(p, lv) ==
    CASE lv = "or" -> level(p, "and")
      [] lv = "and" -> level(p, "equality")
      [] lv = "equality" -> level(p, "comparison")
      [] lv = "comparison" -> level(p, "term")
      [] lv = "term" -> level(p, "factor")
      [] lv = "factor" -> descend("p_unary", p)

\* while self.match_kinds(..) { operator = previous; right = operand()?; expr = node }
level_loop(p, expr, lv) ==
    LET m == match_kinds(p, LevelKinds(lv))
    IN IF ~m.b THEN POk(p, expr)
       ELSE LET operator == previous(m.p)
                right == operand(m.p, lv)
            IN IF right.failed THEN right
               ELSE level_loop(right.p, LevelNode(lv, expr, operator, right.v), lv)

\* or, and, equality, comparison, term, factor
level(p, lv) ==
    LET l == operand(p, lv)
    IN IF l.failed THEN l ELSE level_loop(l.p, l.v, lv)

p_unary(p) ==
    LET m == match_kinds(p, <<"Bang", "Minus">>)
    IN IF m.b
       THEN LET operator == previous(m.p)
                right == descend("p_unary", m.p)
            IN IF right.failed THEN right ELSE POk(right.p, Unary(operator, right.v))
       ELSE descend("primary", p)

primary(p) ==
    CASE check(p, "False") -> POk(advance(p), ExprLiteral(LitBoolean(FALSE)))
      [] check(p, "True") -> POk(advance(p), ExprLiteral(LitBoolean(TRUE)))
      [] check(p, "Nil") -> POk(advance(p), ExprLiteral(LitNone))
      [] check(p, "Number") \/ check(p, "String") ->
           (LET lit == peek(p).literal
            IN CASE lit.t = "String" -> POk(advance(p), ExprLiteral(LitString(lit.s)))
                 [] lit.t = "Number" -> POk(advance(p), ExprLiteral(LitNumber(lit.n)))
                 [] OTHER -> PPanic(advance(p)))
      [] check(p, "LeftParen") ->
           (LET e == descend("expression", advance(p))
            IN IF e.failed THEN e
               ELSE LET c == consume(e.p, "RightParen", "Expect ')' after expression.")
                    IN IF c.failed THEN PPanic(c.p)
                       ELSE POk(c.p, Grouping(e.v)))
      [] check(p, "Identifier") -> POk(advance(p), Variable(peek(p)))
      [] OTHER -> PErr(p, "Expect expression.")

assignment(p) ==
    LET e == level(p, "or")
    IN IF e.failed THEN e
       ELSE LET m == match_kinds(e.p, <<"Equal">>)
            IN IF ~m.b THEN e
               ELSE LET equals == previous(m.p)
                        value == descend("assignment", m.p)
                    IN IF value.failed THEN value
                       ELSE IF e.v.k = "Variable"
                       THEN POk(value.p, Assign(e.v.name, value.v))
                       ELSE PErr(error_token(value.p, equals, "invalid assignment target."),
                                 "Invalid assignment target.")

expression(p) == descend("assignment", p)

expression_statement(p) ==
    LET e == descend("expression", p)
    IN IF e.failed THEN e
       ELSE LET c == consume(e.p, "Semicolon", "Expect ';' after expression statement.")
            IN IF c.failed THEN c ELSE POk(c.p, StmtExpr(e.v))

print_statement(p) ==
    LET e == descend("expression", p)
    IN IF e.failed THEN e
       ELSE LET c == consume(e.p, "Semicolon", "Expect ';' after expression.")
            IN IF c.failed THEN c ELSE POk(c.p, StmtPrint(e.v))

\* while !self.check(RightBrace) && !self.at_end() { statements.push(self.declaration()?) }
block_loop(p, statements) ==
    IF check(p, "RightBrace") \/ at_end(p) THEN POk(p, statements)
    ELSE LET d == descend("declaration", p)
         IN IF d.failed THEN d ELSE block_loop(d.p, Append(statements, d.v))

block_statement(p) ==
    LET b == block_loop(p, <<>>)
    IN IF b.failed THEN b
       ELSE LET c == consume(b.p, "RightBrace", "Expect '}' after block.")
            IN IF c.failed THEN c ELSE POk(c.p, StmtBlock(b.v))

while_statement(p) ==
    LET c1 == consume(p, "LeftParen", "Expect '(' after 'while'.")
    IN IF c1.failed THEN c1
       ELSE LET condition == descend("expression", c1.p)
            IN IF condition.failed THEN condition
               ELSE LET c2 == consume(condition.p, "RightParen", "Expect ')' after condition.")
                    IN IF c2.failed THEN c2
                       ELSE LET body == descend("statement", c2.p)
                            IN IF body.failed THEN body
                               ELSE POk(body.p, StmtWhile(condition.v, body.v))

if_statement(p) ==
    LET c1 == consume(p, "LeftParen", "Expect '(' after 'if'.")
    IN IF c1.failed THEN c1
       ELSE LET condition == descend("expression", c1.p)
            IN IF condition.failed THEN condition
               ELSE LET c2 == consume(condition.p, "RightParen", "Expect ')' after if condition.")
                    IN IF c2.failed THEN c2
                       ELSE LET then_branch == descend("statement", c2.p)
                            IN IF then_branch.failed THEN then_branch
                               ELSE LET m == match_kinds(then_branch.p, <<"Else">>)
                                    IN IF ~m.b
                                       THEN POk(m.p, StmtIf(condition.v, then_branch.v, <<>>))
                                       ELSE LET else_branch == descend("statement", m.p)
                                            IN IF else_branch.failed THEN else_branch
                                               ELSE POk(else_branch.p,
                                                        StmtIf(condition.v, then_branch.v,
                                                               <<else_branch.v>>))

\* the initializer clause: <<>> for None, <<stmt>> for Some(stmt)
for_initializer(p) ==
    IF check(p, "Semicolon") THEN POk(advance(p), <<>>)
    ELSE IF check(p, "Var")
    THEN LET v == descend("var_declaration", advance(p))
         IN IF v.failed THEN v ELSE POk(v.p, <<v.v>>)
    ELSE LET e == descend("expression_statement", p)
         IN IF e.failed THEN e ELSE POk(e.p, <<e.v>>)

for_condition(p) ==
    IF ~check(p, "Semicolon") THEN descend("expression", p)
    ELSE POk(p, ExprLiteral(LitBoolean(TRUE)))

\* the increment clause: <<>> for None, <<expr>> for Some(expr)
for_increment(p) ==
    IF ~check(p, "RightParen")
    THEN LET e == descend("expression", p)
         IN IF e.failed THEN e ELSE POk(e.p, <<e.v>>)
    ELSE POk(p, <<>>)

\* a desugaring that puts the increment before the body
for_desugar_increment_first(initializer, condition, increment, body) ==
    LET b1 == IF increment # <<>> THEN StmtBlock(<<StmtExpr(increment[1]), body>>) ELSE body
        b2 == StmtWhile(condition, b1)
    IN IF initializer # <<>> THEN StmtBlock(<<initializer[1], b2>>) ELSE b2

for_desugar(initializer, condition, increment, body) ==
    LET b1 == IF increment # <<>> THEN StmtBlock(<<body, StmtExpr(increment[1])>>) ELSE body
        b2 == StmtWhile(condition, b1)
    IN IF initializer # <<>> THEN StmtBlock(<<initializer[1], b2>>) ELSE b2

for_statement(p) ==
    LET c1 == consume(p, "LeftParen", "Expect '(' after 'for'.")
    IN IF c1.failed THEN c1
       ELSE LET initializer == for_initializer(c1.p)
            IN IF initializer.failed THEN initializer
               ELSE LET condition == for_condition(initializer.p)
                    IN IF condition.failed THEN condition
                       ELSE LET c2 == consume(condition.p, "Semicolon",
                                              "Expect ';' after loop condition.")
                            IN IF c2.failed THEN c2
                               ELSE LET increment == for_increment(c2.p)
                                    IN IF increment.failed THEN increment
                                       ELSE LET c3 == consume(increment.p, "RightParen",
                                                              "Expect ')' after for clauses.")
                                            IN IF c3.failed THEN c3
                                               ELSE LET body == descend("statement", c3.p)
                                                    IN IF body.failed THEN body
                                                       ELSE POk(body.p,
                                                                for_desugar(initializer.v,
                                                                            condition.v,
                                                                            increment.v,
                                                                            body.v))

statement(p) ==
    CASE check(p, "If") -> descend("if_statement", advance(p))
      [] check(p, "Print") -> descend("print_statement", advance(p))
      [] check(p, "LeftBrace") -> descend("block_statement", advance(p))
      [] check(p, "While") -> descend("while_statement", advance(p))
      [] check(p, "For") -> descend("for_statement", advance(p))
      [] OTHER -> descend("expression_statement", p)

var_declaration(p) ==
    LET name == consume(p, "Identifier", "Expect variable name.")
    IN IF name.failed THEN name
       ELSE LET m == match_kinds(name.p, <<"Equal">>)
                initializer == IF m.b THEN descend("expression", m.p) ELSE POk(m.p, ExprLiteral(LitNone))
            IN IF initializer.failed THEN initializer
               ELSE LET c == consume(initializer.p, "Semicolon",
                                     "Expect ';' after variable declaration.")
                    IN IF c.failed THEN c
                       ELSE POk(c.p, StmtVar(name.v, initializer.v))

declaration(p) ==
    IF check(p, "Var") THEN inspect_err_sync(descend("var_declaration", advance(p)))
    ELSE inspect_err_sync(descend("statement", p))


\* the method a rule name stands for
descend(rule, p) ==
    CASE rule = "declaration" -> declaration(p)
      [] rule = "var_declaration" -> var_declaration(p)
      [] rule = "statement" -> statement(p)
      [] rule = "if_statement" -> if_statement(p)
      [] rule = "for_statement" -> for_statement(p)
      [] rule = "while_statement" -> while_statement(p)
      [] rule = "block_statement" -> block_statement(p)
      [] rule = "print_statement" -> print_statement(p)
      [] rule = "expression_statement" -> expression_statement(p)
      [] rule = "expression" -> expression(p)
      [] rule = "assignment" -> assignment(p)
      [] rule = "p_unary" -> p_unary(p)
      [] rule = "primary" -> primary(p)

\* while !self.at_end() { statements.push(self.declaration()?); } Ok(statements)
RECURSIVE parse_loop(_, _)
parse_loop(p, statements) ==
    IF at_end(p) THEN POk(p, statements)
    ELSE LET d == declaration(p)
         IN IF d.failed THEN d ELSE parse_loop(d.p, Append(statements, d.v))

parse(p) == parse_loop(p, <<>>)

(***************************************************************************)
(* Idle values of the objects a specification does not use                  *)
(***************************************************************************)
NoScanner == [st |-> "Idle"]
NoParser == [st |-> "Idle"]
NoCall == [st |-> "Idle"]

(***************************************************************************)
(* SpecInterp: statement trees given to Interpreter::interpret, one         *)
(* iteration of its loop per step.  The trees are built as the tests of     *)
(* interpreter.rs build them.                                               *)
(***************************************************************************)
Tok(kind, lexeme) == Token(kind, lexeme, TokNone, 1)
NameTok(n) == Tok("Identifier", n)
MinusTok == Tok("Minus", <<"-">>)

Names == {<<"a">>, <<"b">>}
Vals == {Num(1), Num(2), LitBoolean(TRUE), LitString(<<"s">>), LitNone}

LitExprs == {ExprLiteral(v) : v \in Vals}
VarExprs == {Variable(NameTok(n)) : n \in Names}
\* -true: always a runtime error
FailExpr == Unary(MinusTok, ExprLiteral(LitBoolean(TRUE)))
AssignExprs ==
    {Assign(NameTok(n), e) : n \in Names, e \in LitExprs \cup VarExprs \cup {FailExpr}}
    \cup {Assign(NameTok(<<"a">>), Assign(NameTok(<<"b">>), e)) : e \in LitExprs}

VarStmts == {StmtVar(NameTok(n), e) : n \in Names, e \in LitExprs}
ExprStmts == {StmtExpr(e) : e \in AssignExprs \cup {FailExpr}}
PrintStmts == {StmtPrint(e) : e \in VarExprs \cup AssignExprs}
SimpleStmts == VarStmts \cup ExprStmts \cup PrintStmts

\* statements put inside blocks
InnerStmts ==
    {StmtVar(NameTok(<<"a">>), ExprLiteral(Num(2))),
     StmtExpr(Assign(NameTok(<<"a">>), ExprLiteral(LitString(<<"s">>)))),
     StmtExpr(Assign(NameTok(<<"b">>), ExprLiteral(Num(2)))),
     StmtPrint(Variable(NameTok(<<"a">>))),
     StmtExpr(FailExpr)}
Blocks1 == {StmtBlock(<<>>)} \cup {StmtBlock(<<s>>) : s \in InnerStmts}
                \cup {StmtBlock(<<s, t>>) : s \in InnerStmts, t \in InnerStmts}
Blocks2 == {StmtBlock(<<s, b>>) : s \in InnerStmts, b \in Blocks1}
               \cup {StmtBlock(<<b, s>>) : s \in InnerStmts, b \in Blocks1}
BlockStmts == Blocks1 \cup Blocks2

\* a < 3, and a = a + 1
BelowThree(n) == Binary(Variable(NameTok(n)), Tok("Less", <<"<">>), ExprLiteral(Num(3)))
Increment(n) ==
    Assign(NameTok(n), Binary(Variable(NameTok(n)), Tok("Plus", <<"+">>), ExprLiteral(Num(1))))
\* (b = b + 1) == nil and b < 3: a condition that counts its evaluations in b
CountingCondition ==
    Logical(Binary(Grouping(Increment(<<"b">>)), Tok("EqualEqual", <<"=", "=">>),
                   ExprLiteral(LitNone)),
            Tok("And", <<"a", "n", "d">>), BelowThree(<<"b">>))
WhileStmts ==
    {StmtWhile(BelowThree(<<"a">>),
               StmtBlock(<<StmtPrint(Variable(NameTok(<<"a">>))),
                           StmtExpr(Increment(<<"a">>))>>)),
     StmtWhile(CountingCondition, StmtPrint(Variable(NameTok(<<"b">>)))),
     StmtWhile(BelowThree(<<"a">>), StmtExpr(FailExpr)),
     StmtWhile(BelowThree(<<"a">>),
               StmtExpr(Assign(NameTok(<<"a">>), ExprLiteral(LitNone)))),
     StmtWhile(ExprLiteral(LitNone), StmtPrint(Variable(NameTok(<<"a">>)))),
     StmtWhile(Variable(NameTok(<<"b">>)),
               StmtExpr(Assign(NameTok(<<"b">>), ExprLiteral(LitNone))))}

Stmts == SimpleStmts \cup BlockStmts \cup WhileStmts

InitInterp ==
    /\ scanner = NoScanner
    /\ parser = NoParser
    /\ \E ok \in BOOLEAN :
          interpreter = [Interpreter_new(Environment_new) EXCEPT !.sink_ok = ok]
    /\ had_error = FALSE
    /\ reports = <<>>
    /\ call = [st |-> "Idle", n |-> 0, stmt |-> <<>>]

\* a caller invokes interpret on the interpreter, whatever the last call returned
InterpretCall ==
    /\ call.st \in {"Idle", "Ok", "Err"}
    /\ call.n < MaxStmts
    /\ call' = [call EXCEPT !.st = "Running", !.stmt = <<>>]
    /\ UNCHANGED <<scanner, parser, interpreter, had_error, reports>>

\* one iteration of the loop of interpret: self.execute_stmt(stmt)?
ExecuteStmt(s) ==
    /\ call.st = "Running"
    /\ call.n < MaxStmts
    /\ LET r == execute_stmt(interpreter, s)
       IN /\ interpreter' = r.I
          /\ call' = [st |-> IF r.st = "Ok" THEN "Running" ELSE r.st,
                      n |-> call.n + 1, stmt |-> <<s>>]
    /\ UNCHANGED <<scanner, parser, had_error, reports>>

\* the loop of interpret has run out of statements: Ok(())
InterpretReturn ==
    /\ call.st = "Running"
    /\ call' = [call EXCEPT !.st = "Ok"]
    /\ UNCHANGED <<scanner, parser, interpreter, had_error, reports>>

NextInterp ==
    \/ InterpretCall
    \/ \E s \in Stmts : ExecuteStmt(s)
    \/ InterpretReturn

SpecInterp == InitInterp /\ [][NextInterp]_vars

Depth(I) == Len(I.environment.scopes)

IsPrefix(a, b) == Len(a) <= Len(b) /\ SubSeq(b, 1, Len(a)) = a

\* what a name resolves to
Resolve(I, n) == get(I.environment, NameTok(n))
Resolves(I, n) == Resolve(I, n).st = "Ok"

\* the step executes a statement of kind k
Executes(k) ==
    /\ call.st = "Running"
    /\ call'.n = call.n + 1
    /\ call'.stmt # <<>>
    /\ call'.stmt[1].k = k

(***************************************************************************)
(* C1: executing a Block leaves the scope stack as deep as it found it,     *)
(* when every statement of the block succeeds and when one raises a         *)
(* runtime error.                                                           *)
(***************************************************************************)
C1_BlockReleasesScope ==
    [][Executes("Block") => Depth(interpreter') = Depth(interpreter)]_vars

(***************************************************************************)
(* C3: in every state reached by interpret calls, successful or failing,    *)
(* the scope stack holds at least one scope: the global scope is never      *)
(* popped (and no pop or define ever finds the stack empty).                *)
(***************************************************************************)
C3_GlobalScopeNeverPopped ==
    /\ Depth(interpreter) >= 1
    /\ call.st # "Panic"

\* a block has completed, and popped its scope, on top of a scope that an
\* earlier failing block left behind
C3_Witness ==
    /\ call.st = "Running"
    /\ call.stmt # <<>>
    /\ call.stmt[1].k = "Block"
    /\ Depth(interpreter) >= 2

(***************************************************************************)
(* C7: evaluating Assign(name, e) on a defined variable yields the value    *)
(* of e, which is also the variable's value afterwards.                     *)
(***************************************************************************)
C7_AssignYieldsValue ==
    \A e \in AssignExprs :
        LET v == evaluate_expr(interpreter, e.value)
            r == evaluate_expr(interpreter, e)
        IN r.st = "Ok" =>
              /\ get(r.I.environment, e.name).v = v.v
              /\ r.v = v.v

\* the block opens with `var n`: from there on n names the block's own binding
DeclaresFirst(block, n) ==
    /\ block.statements # <<>>
    /\ block.statements[1].k = "Var"
    /\ block.statements[1].name.lexeme = n

(***************************************************************************)
(* C14: after a Block has finished, by running to its end or by a runtime   *)
(* error of one of its statements, no binding made by a `var` inside it is  *)
(* visible: a name that did not resolve before the block fails with         *)
(* Undefined variable after it, and a name the block shadowed with its own  *)
(* `var` resolves to the outer binding with the value that binding had      *)
(* before the block.                                                        *)
(***************************************************************************)
BlockLocalsInvisible ==
    \A n \in Names :
        /\ ~Resolves(interpreter, n) =>
               /\ Resolve(interpreter', n).st = "Err"
               /\ Resolve(interpreter', n).err.message = "Undefined variable"
        /\ (Resolves(interpreter, n) /\ DeclaresFirst(call'.stmt[1], n)) =>
               Resolve(interpreter', n) = Resolve(interpreter, n)

C14_BlockLocalsInvisible ==
    [][(Executes("Block") /\ call'.st \in {"Running", "Err"}) => BlockLocalsInvisible]_vars

(***************************************************************************)
(* SpecEnv: the operations of Environment, called in any order on one       *)
(* environment.  As in the interpreter, a pop follows a push: the global    *)
(* scope is not popped.                                                     *)
(***************************************************************************)
EnvVals == {Num(1), Num(2)}

InitEnv ==
    /\ scanner = NoScanner
    /\ parser = NoParser
    /\ interpreter = Interpreter_new(Environment_new)
    /\ had_error = FALSE
    /\ reports = <<>>
    /\ call = [op |-> "new", st |-> "Ok", name |-> <<>>, value |-> LitNone]

EnvAddScope ==
    /\ Depth(interpreter) < MaxScopes
    /\ interpreter' = [interpreter EXCEPT !.environment = add_scope(@)]
    /\ call' = [op |-> "add_scope", st |-> "Ok", name |-> <<>>, value |-> LitNone]
    /\ UNCHANGED <<scanner, parser, had_error, reports>>

EnvPopScope ==
    /\ Depth(interpreter) > 1
    /\ interpreter' = [interpreter EXCEPT !.environment = pop_scope(@).env]
    /\ call' = [op |-> "pop_scope", st |-> pop_scope(interpreter.environment).st,
                name |-> <<>>, value |-> LitNone]
    /\ UNCHANGED <<scanner, parser, had_error, reports>>

EnvDefine(n, v) ==
    /\ interpreter' = [interpreter EXCEPT !.environment = define(@, n, v).env]
    /\ call' = [op |-> "define", st |-> define(interpreter.environment, n, v).st,
                name |-> n, value |-> v]
    /\ UNCHANGED <<scanner, parser, had_error, reports>>

EnvAssign(n, v) ==
    /\ interpreter' = [interpreter EXCEPT !.environment = assign_env(@, NameTok(n), v).env]
    /\ call' = [op |-> "assign", st |-> assign_env(interpreter.environment, NameTok(n), v).st,
                name |-> n, value |-> v]
    /\ UNCHANGED <<scanner, parser, had_error, reports>>

NextEnv ==
    \/ EnvAddScope
    \/ EnvPopScope
    \/ \E n \in Names, v \in EnvVals : EnvDefine(n, v)
    \/ \E n \in Names, v \in EnvVals : EnvAssign(n, v)

SpecEnv == InitEnv /\ [][NextEnv]_vars

\* the scopes that hold the name
Holders(env, n) == {i \in 1..Len(env.scopes) : MapHas(env.scopes[i], n)}
\* the names a scope binds
Bound(scope) == {scope[i][1] : i \in 1..Len(scope)}

\* scope i of env2 is scope i of env with n bound to v and nothing else changed
OnlyRebinds(env, env2, i, n, v) ==
    /\ Bound(env2.scopes[i]) = Bound(env.scopes[i])
    /\ MapGet(env2.scopes[i], n) = v
    /\ \A m \in Bound(env.scopes[i]) \ {n} :
           MapGet(env2.scopes[i], m) = MapGet(env.scopes[i], m)

(***************************************************************************)
(* C15: Environment.assign changes exactly one binding, the one of the      *)
(* name in the innermost scope that holds it, and leaves every other scope  *)
(* and binding as it was; when no scope holds the name it returns an        *)
(* Undefined variable error, makes no binding and leaves the environment    *)
(* as it was.                                                               *)
(***************************************************************************)
AssignFrame(env, env2, n, v) ==
    IF Holders(env, n) = {}
    THEN /\ call'.st = "Err"
         /\ assign_env(env, NameTok(n), v).err.message = "Undefined variable"
         /\ env2 = env
    ELSE /\ call'.st = "Ok"
         /\ Len(env2.scopes) = Len(env.scopes)
         /\ \A i \in Holders(env, n) :
               IF \A j \in Holders(env, n) : j <= i
               THEN OnlyRebinds(env, env2, i, n, v)
               ELSE env2.scopes[i] = env.scopes[i]
         /\ \A i \in (1..Len(env.scopes)) \ Holders(env, n) :
               env2.scopes[i] = env.scopes[i]

C15_AssignChangesOneBinding ==
    [][call'.op = "assign" =>
          AssignFrame(interpreter.environment, interpreter'.environment,
                      call'.name, call'.value)]_vars

\* an assign has rebound a in the middle scope of three: the global scope
\* holds another value of a, the innermost scope holds b but not a
C15_Witness ==
    /\ call.op = "assign"
    /\ call.st = "Ok"
    /\ call.name = <<"a">>
    /\ Depth(interpreter) >= 3
    /\ Holders(interpreter.environment, <<"a">>) = {1, 2}
    /\ MapHas(interpreter.environment.scopes[3], <<"b">>)
    /\ MapGet(interpreter.environment.scopes[2], <<"a">>) = call.value
    /\ MapGet(interpreter.environment.scopes[1], <<"a">>) # call.value

(***************************************************************************)
(* SpecScan: Scanner::scan_tokens on every text of at most MaxSrcLen        *)
(* characters, one iteration of its loop per step.                          *)
(***************************************************************************)
ScanChars == {"\"", "@", "U+00E9", "U+0130", "1", ".", "a", ";", "\n", "/", "=", "o", "r"}

RECURSIVE Texts(_)
Texts(n) ==
    IF n = 0 THEN {<<>>}
    ELSE LET shorter == Texts(n - 1)
         IN shorter \cup {Append(t, c) : t \in {u \in shorter : Len(u) = n - 1}, c \in ScanChars}

InitScan ==
    /\ \E t \in Texts(MaxSrcLen) : scanner = Scanner_new(Utf8(t))
    /\ parser = NoParser
    /\ interpreter = Interpreter_new(Environment_new)
    /\ had_error = FALSE
    /\ reports = <<>>
    /\ call = NoCall

\* while !self.is_at_end() { self.start = self.current; self.scan_token(); }
ScanToken ==
    /\ scanner.st = "Scanning"
    /\ ~sc_is_at_end(scanner)
    /\ scanner' = scan_step(scanner)
    /\ reports' = scanner'.reported
    /\ UNCHANGED <<parser, interpreter, had_error, call>>

\* the loop is over: push Eof and return the tokens
ScanFinish ==
    /\ scanner.st = "Scanning"
    /\ sc_is_at_end(scanner)
    /\ scanner' = scan_eof(scanner)
    /\ UNCHANGED <<parser, interpreter, had_error, reports, call>>

NextScan == ScanToken \/ ScanFinish

SpecScan == InitScan /\ [][NextScan]_vars

\* the character a scan_token call starts at
FirstChar(s) == s.source[s.start + 1]
\* scan_token has run on the text from s.start
Scanned(s) == s.st # "Done" /\ s.current > s.start

LastReport(s) == s.reported[Len(s.reported)]

(***************************************************************************)
(* C9: when a string literal's opening quote has no closing quote before    *)
(* the end of the input, the scan reports an error, does not crash, and     *)
(* stands at the end of the input, where the Eof token is appended.         *)
(***************************************************************************)
Unterminated(s) ==
    /\ FirstChar(s) = "\""
    /\ \A i \in (s.start + 2)..Len(s.source) : s.source[i] # "\""

C9_UnterminatedStringNoCrash ==
    (Scanned(scanner) /\ Unterminated(scanner)) =>
        /\ scanner.st # "Panic"
        /\ sc_is_at_end(scanner)
        /\ scanner.reported # <<>>
        /\ LastReport(scanner).message = "Unterminated string."

(***************************************************************************)
(* C10: a character that starts no token, ASCII or not, is reported as a    *)
(* scan error and skipped: the scanner does not crash and stands right      *)
(* after that character, so that the tokens after it are still scanned.     *)
(***************************************************************************)
StartsNoToken(c) ==
    /\ c \notin SingleChars \cup {"!", "=", "<", ">", "/", " ", "\r", "\t", "\n", "\""}
    /\ c \notin Digits \cup Letters \cup {"_"}

C10_UnrecognizedCharSkipped ==
    (Scanned(scanner) /\ StartsNoToken(FirstChar(scanner))) =>
        /\ scanner.st # "Panic"
        /\ scanner.current = scanner.start + Width(FirstChar(scanner))
        /\ scanner.reported # <<>>
        /\ LastReport(scanner).message = "Unexpected character"

\* the token scan_token has just pushed
LastToken(s) == s.tokens[Len(s.tokens)]

\* the offset right after the run of digits that starts at s.start
RunEnd(s) ==
    CHOOSE e \in (s.start + 1)..Len(s.source) :
        /\ \A i \in (s.start + 1)..e : s.source[i] \in Digits
        /\ (e = Len(s.source) \/ s.source[e + 1] \notin Digits)

\* scan_token started at a digit and the run of digits is followed by '.'
DigitsThenDot(s) ==
    /\ FirstChar(s) \in Digits
    /\ RunEnd(s) < Len(s.source)
    /\ s.source[RunEnd(s) + 1] = "."

\* a digit stands right after that '.'
DigitAfterDot(s) ==
    /\ RunEnd(s) + 1 < Len(s.source)
    /\ s.source[RunEnd(s) + 2] \in Digits

(***************************************************************************)
(* C11: for a run of digits followed by '.', the dot becomes part of the    *)
(* Number token only if a digit follows it; otherwise the Number token is   *)
(* the run of digits and the scanner stands at the dot, which is scanned    *)
(* next as a Dot token.  This holds wherever the dot is, also when it is    *)
(* the last character of the source.                                        *)
(***************************************************************************)
C11_DotNeedsDigit ==
    (Scanned(scanner) /\ DigitsThenDot(scanner)) =>
        /\ scanner.st # "Panic"
        /\ scanner.tokens # <<>>
        /\ LastToken(scanner).kind = "Number"
        /\ IF DigitAfterDot(scanner)
           THEN scanner.current > RunEnd(scanner) + 1
           ELSE /\ scanner.current = RunEnd(scanner)
                /\ LastToken(scanner).lexeme =
                       SubSeq(scanner.source, scanner.start + 1, RunEnd(scanner))

(***************************************************************************)
(* C12: for every source text scan_tokens terminates and returns: each      *)
(* scan_token step moves current forward by at least one character without  *)
(* crashing, and the returned sequence ends with the Eof token and holds    *)
(* no other Eof token.                                                      *)
(***************************************************************************)
C12_ScanReturnsEofLast ==
    /\ scanner.st # "Panic"
    /\ (scanner.st = "Scanning" /\ ~sc_is_at_end(scanner)) =>
           scan_step(scanner).current > scanner.current
    /\ scanner.st = "Done" =>
           /\ scanner.tokens # <<>>
           /\ LastToken(scanner).kind = "Eof"
           /\ \A i \in 1..(Len(scanner.tokens) - 1) : scanner.tokens[i].kind # "Eof"

(***************************************************************************)
(* SpecParse: Parser::parse on every sequence of at most MaxTokens tokens   *)
(* followed by Eof, and on the tokens of expression statements with two     *)
(* operators and of for statements, one iteration of its loop per step.     *)
(* The tokens are the ones the scanner makes of the lexemes; a sequence     *)
(* holds at most one '(' (one level of grouping).                           *)
(***************************************************************************)
\* a token as the scanner pushes it: the lexeme is its literal
LexTok(kind, lexeme) == Token(kind, lexeme, TokString(lexeme), 1)
EofTok == Token("Eof", <<>>, TokNone, 1)

ParseTokens ==
    {LexTok("Var", <<"v", "a", "r">>), LexTok("Identifier", <<"a">>),
     LexTok("Equal", <<"=">>), Token("Number", <<"1">>, TokNumber(<<1, 1>>), 1),
     LexTok("Semicolon", <<";">>), LexTok("LeftParen", <<"(">>),
     LexTok("RightParen", <<")">>), LexTok("LeftBrace", <<"{">>),
     LexTok("RightBrace", <<"}">>)}

RECURSIVE TokenSeqs(_)
TokenSeqs(n) ==
    IF n = 0 THEN {<<>>}
    ELSE LET shorter == TokenSeqs(n - 1)
         IN shorter \cup {Append(t, c) : t \in {u \in shorter : Len(u) = n - 1},
                                        c \in ParseTokens}

\* the tokens the scanner makes of a whole number, of an operator and of `;`
NumTok(n) == Token("Number", NatText(n), TokNumber(<<n, 1>>), 1)
OpLexeme(kind) ==
    CASE kind = "Star" -> <<"*">> [] kind = "Slash" -> <<"/">>
      [] kind = "Plus" -> <<"+">> [] kind = "Minus" -> <<"-">>
      [] kind = "Greater" -> <<">">> [] kind = "GreaterEqual" -> <<">", "=">>
      [] kind = "Less" -> <<"<">> [] kind = "LessEqual" -> <<"<", "=">>
      [] kind = "EqualEqual" -> <<"=", "=">> [] kind = "BangEqual" -> <<"!", "=">>
      [] kind = "And" -> <<"a", "n", "d">> [] kind = "Or" -> <<"o", "r">>
      [] kind = "Bang" -> <<"!">> [] kind = "Equal" -> <<"=">>
OpTok(kind) == LexTok(kind, OpLexeme(kind))
SemiTok == LexTok("Semicolon", <<";">>)
IdentTok(n) == LexTok("Identifier", n)

InfixKinds ==
    {"Star", "Slash", "Plus", "Minus", "Greater", "GreaterEqual", "Less", "LessEqual",
     "EqualEqual", "BangEqual", "And", "Or"}
PrefixKinds == {"Minus", "Bang"}

\* 1 o1 2 o2 3 ;   u 1 o 2 ;   a = 1 o 2 ;   - 123 * ( 45.67 ) ;
TwoInfix(o1, o2) == <<NumTok(1), OpTok(o1), NumTok(2), OpTok(o2), NumTok(3), SemiTok>>
PrefixInfix(u, o) == <<OpTok(u), NumTok(1), OpTok(o), NumTok(2), SemiTok>>
AssignInfix(o) == <<IdentTok(<<"a">>), OpTok("Equal"), NumTok(1), OpTok(o), NumTok(2), SemiTok>>
DisplayExample ==
    <<OpTok("Minus"), NumTok(123), OpTok("Star"), LexTok("LeftParen", <<"(">>),
      Token("Number", <<"4", "5", ".", "6", "7">>, TokNumber(<<4567, 100>>), 1),
      LexTok("RightParen", <<")">>), SemiTok>>
ExprTokenSeqs ==
    {TwoInfix(o1, o2) : o1 \in InfixKinds, o2 \in InfixKinds}
        \cup {PrefixInfix(u, o) : u \in PrefixKinds, o \in InfixKinds}
        \cup {AssignInfix(o) : o \in InfixKinds}
        \cup {DisplayExample}

\* for ( [var i = 0 | i = 0] ; [i < 2] ; [i = i + 1] ) print i ;
ForInits == {"var", "expr", "none"}
ForTokens(init, cond, incr) ==
    <<LexTok("For", <<"f", "o", "r">>), LexTok("LeftParen", <<"(">>)>>
        \o (IF init = "var" THEN <<LexTok("Var", <<"v", "a", "r">>)>> ELSE <<>>)
        \o (IF init = "none" THEN <<>>
            ELSE <<IdentTok(<<"i">>), OpTok("Equal"), NumTok(0)>>)
        \o <<SemiTok>>
        \o (IF cond THEN <<IdentTok(<<"i">>), OpTok("Less"), NumTok(2)>> ELSE <<>>)
        \o <<SemiTok>>
        \o (IF incr
            THEN <<IdentTok(<<"i">>), OpTok("Equal"), IdentTok(<<"i">>), OpTok("Plus"), NumTok(1)>>
            ELSE <<>>)
        \o <<LexTok("RightParen", <<")">>), LexTok("Print", <<"p", "r", "i", "n", "t">>),
             IdentTok(<<"i">>), SemiTok>>
ForTokenSeqs ==
    {ForTokens(init, cond, incr) : init \in ForInits, cond \in BOOLEAN, incr \in BOOLEAN}

\* the Parser, with the position of parse: st and the statements pushed so far
ParseStart(tokens) ==
    [tokens |-> tokens, current |-> 0, reported |-> <<>>, syncs |-> 0,
     st |-> "Parsing", statements |-> <<>>]

InitParse ==
    /\ scanner = NoScanner
    /\ \E ts \in TokenSeqs(MaxTokens) \cup ExprTokenSeqs \cup ForTokenSeqs :
          /\ \A i, j \in 1..Len(ts) :
                ts[i].kind = "LeftParen" /\ ts[j].kind = "LeftParen" => i = j
          /\ parser = ParseStart(Append(ts, EofTok))
    /\ interpreter = Interpreter_new(Environment_new)
    /\ had_error = FALSE
    /\ reports = <<>>
    /\ call = NoCall

\* statements.push(d?): an Ok is pushed, anything else ends parse
ParsePush(d) ==
    parser' = IF d.st = "Ok"
              THEN [d.p EXCEPT !.statements = Append(@, d.v)]
              ELSE [d.p EXCEPT !.st = d.st]

\* one iteration of the loop of parse: statements.push(self.declaration()?)
ParseDeclaration ==
    /\ parser.st = "Parsing"
    /\ ~at_end(parser)
    /\ ParsePush(declaration(parser))
    /\ reports' = parser'.reported
    /\ UNCHANGED <<scanner, interpreter, had_error, call>>

\* the loop is over: Ok(statements)
ParseReturn ==
    /\ parser.st = "Parsing"
    /\ at_end(parser)
    /\ parser' = [parser EXCEPT !.st = "Ok"]
    /\ UNCHANGED <<scanner, interpreter, had_error, reports, call>>

NextParse == ParseDeclaration \/ ParseReturn

SpecParse == InitParse /\ [][NextParse]_vars

(***************************************************************************)
(* C5: after a failed declaration the parser synchronizes and goes on with  *)
(* the loop of parse, so that a later malformed statement is reported by    *)
(* the same call: parse returns only when it has reached Eof.               *)
(***************************************************************************)
C5_ParseContinuesAfterError ==
    parser.st = "Err" => at_end(parser)

(***************************************************************************)
(* C8: on a token sequence that ends in Eof, parse returns a statement      *)
(* list or an error and never panics; a missing ')' is a parse error.       *)
(***************************************************************************)
C8_ParseNeverPanics ==
    parser.st # "Panic"

(***************************************************************************)
(* Spec: a REPL session (main.rs run_prompt) on one RLox.  run scans and    *)
(* parses the line, then interpret executes the statements, one iteration   *)
(* of its loop per step.  reports holds what the run wrote through the      *)
(* error reporter (via "report") and to stderr (via "eprintln").            *)
(***************************************************************************)
\* var a = 1;
UnitVarA ==
    <<"v", "a", "r", " ", "a", " ", "=", " ", "1", ";">>
\* a = 2;
UnitAssignA ==
    <<"a", " ", "=", " ", "2", ";">>
\* print a;
UnitPrintA ==
    <<"p", "r", "i", "n", "t", " ", "a", ";">>
\* { var a = 3; -true; }
UnitBlockFails ==
    <<"{", " ", "v", "a", "r", " ", "a", " ", "=", " ", "3", ";", " ", "-",
      "t", "r", "u", "e", ";", " ", "}">>
\* { var a = 3; print a; }
UnitBlockOk ==
    <<"{", " ", "v", "a", "r", " ", "a", " ", "=", " ", "3", ";", " ", "p",
      "r", "i", "n", "t", " ", "a", ";", " ", "}">>
\* print 1; -true; print 2;
UnitFailsMidway ==
    <<"p", "r", "i", "n", "t", " ", "1", ";", " ", "-", "t", "r", "u", "e",
      ";", " ", "p", "r", "i", "n", "t", " ", "2", ";">>
\* print 1; @
UnitBadChar ==
    <<"p", "r", "i", "n", "t", " ", "1", ";", " ", "@">>
\* @ var a = 4;
UnitBadCharVar ==
    <<"@", " ", "v", "a", "r", " ", "a", " ", "=", " ", "4", ";">>
\* print 1; )
UnitBadParse ==
    <<"p", "r", "i", "n", "t", " ", "1", ";", " ", ")">>
\* var ; var ;
UnitTwoBadParse ==
    <<"v", "a", "r", " ", ";", " ", "v", "a", "r", " ", ";">>
\* print "a;
UnitOpenString ==
    <<"p", "r", "i", "n", "t", " ", "\"", "a", ";">>
\* print (1;
UnitOpenParen ==
    <<"p", "r", "i", "n", "t", " ", "(", "1", ";">>

Units ==
    {UnitVarA, UnitAssignA, UnitPrintA, UnitBlockFails, UnitBlockOk, UnitFailsMidway,
     UnitBadChar, UnitBadCharVar, UnitBadParse, UnitTwoBadParse, UnitOpenString, UnitOpenParen}

RLox_new(I) ==
    [st |-> "Prompt", lines |-> 0, stmts |-> <<>>, pc |-> 0, result |-> "None", I0 |-> I]

Init ==
    /\ scanner = NoScanner
    /\ parser = NoParser
    /\ interpreter = Interpreter_new(Environment_new)
    /\ had_error = FALSE
    /\ reports = <<>>
    /\ call = RLox_new(interpreter)

\* eprintln!("{}", err) of a parse error
ParseErrLine(msg) == [via |-> "eprintln", line |-> 0, where |-> <<>>, message |-> msg]
\* eprintln!("{}\n{} ", err.message, "[line n]" | "")
RuntimeErrLine(err) ==
    [via |-> "eprintln",
     line |-> IF err.token = <<>> THEN 0 ELSE err.token[1].line,
     where |-> <<>>, message |-> err.message]

\* match parser.parse() { Ok(statements) => interpret.., Err(err) => eprintln!(..) }
RunParsed(sc, ps) ==
    /\ scanner' = sc
    /\ parser' = [ps.p EXCEPT !.tokens = <<>>]
    /\ reports' = reports \o sc.reported \o ps.p.reported
                     \o (IF ps.st = "Err" THEN <<ParseErrLine(ps.msg)>> ELSE <<>>)
    /\ call' = [st |-> CASE ps.st = "Ok" -> "Running"
                         [] ps.st = "Err" -> "Returned"
                         [] OTHER -> "Crashed",
                lines |-> call.lines + 1,
                stmts |-> IF ps.st = "Ok" THEN ps.v ELSE <<>>,
                pc |-> 1,
                result |-> CASE ps.st = "Ok" -> "None"
                             [] ps.st = "Err" -> "SyntaxErr"
                             [] OTHER -> "Panic",
                I0 |-> interpreter]

\* let tokens = scanner.scan_tokens(); let mut parser = Parser::new(tokens); parser.parse()
RunScanned(sc) ==
    IF sc.st = "Panic"
    THEN /\ scanner' = sc
         /\ parser' = NoParser
         /\ reports' = reports \o sc.reported
         /\ call' = [call EXCEPT !.st = "Crashed", !.lines = @ + 1, !.stmts = <<>>,
                                 !.pc = 0, !.result = "Panic", !.I0 = interpreter]
    ELSE RunParsed(sc, parse(Parser_new(sc.tokens)))

\* run(source) up to the call of interpret: scan_tokens, Parser::new, parse
RunScanParse(source) ==
    /\ call.st = "Prompt"
    /\ call.lines < MaxLines
    /\ RunScanned(scan_tokens(Utf8(source)))
    /\ UNCHANGED <<interpreter, had_error>>

\* RunExecute with an interpret that drops the error of a statement and goes on
RunExecute_keeps_going ==
    /\ call.st = "Running"
    /\ call.pc <= Len(call.stmts)
    /\ LET r == execute_stmt(interpreter, call.stmts[call.pc])
       IN /\ interpreter' = r.I
          /\ CASE r.st \in {"Ok", "Err"} ->
                    /\ call' = [call EXCEPT !.pc = @ + 1]
                    /\ reports' = reports
               [] OTHER ->
                    /\ call' = [call EXCEPT !.st = "Crashed", !.result = r.st]
                    /\ reports' = reports
    /\ UNCHANGED <<scanner, parser, had_error>>

\* one iteration of the loop of interpret; an Err ends interpret and run reports it
RunExecute ==
    /\ call.st = "Running"
    /\ call.pc <= Len(call.stmts)
    /\ LET r == execute_stmt(interpreter, call.stmts[call.pc])
       IN /\ interpreter' = r.I
          /\ CASE r.st = "Ok" ->
                    /\ call' = [call EXCEPT !.pc = @ + 1]
                    /\ reports' = reports
               [] r.st = "Err" ->
                    /\ call' = [call EXCEPT !.st = "Returned", !.result = "RuntimeErr"]
                    /\ reports' = Append(reports, RuntimeErrLine(r.err))
               [] OTHER ->
                    /\ call' = [call EXCEPT !.st = "Crashed", !.result = r.st]
                    /\ reports' = reports
    /\ UNCHANGED <<scanner, parser, had_error>>

\* interpret returns Ok(()) and run returns
RunReturn ==
    /\ call.st = "Running"
    /\ call.pc > Len(call.stmts)
    /\ call' = [call EXCEPT !.st = "Returned", !.result = "Ok"]
    /\ UNCHANGED <<scanner, parser, interpreter, had_error, reports>>

\* run_prompt: rlox.had_error = false; and the next line is read
PromptNext ==
    /\ call.st = "Returned"
    /\ had_error' = FALSE
    /\ call' = [call EXCEPT !.st = "Prompt"]
    /\ UNCHANGED <<scanner, parser, interpreter, reports>>

Next ==
    \/ \E source \in Units : RunScanParse(source)
    \/ RunExecute
    \/ RunReturn
    \/ PromptNext

Spec == Init /\ [][Next]_vars

RECURSIVE ExprAssigns(_, _)
\* the expression holds an assignment to the name
ExprAssigns(e, n) ==
    CASE e.k = "Assign" -> e.name.lexeme = n \/ ExprAssigns(e.value, n)
      [] e.k = "Grouping" -> ExprAssigns(e.expression, n)
      [] e.k = "Unary" -> ExprAssigns(e.right, n)
      [] e.k \in {"Binary", "Logical"} -> ExprAssigns(e.left, n) \/ ExprAssigns(e.right, n)
      [] OTHER -> FALSE

RECURSIVE StmtAssigns(_, _)
\* the statement, or one nested in it, holds an assignment to the name
StmtAssigns(s, n) ==
    CASE s.k \in {"Expr", "Print"} -> ExprAssigns(s.expression, n)
      [] s.k = "Var" -> ExprAssigns(s.initializer, n)
      [] s.k = "Block" -> \E i \in 1..Len(s.statements) : StmtAssigns(s.statements[i], n)
      [] s.k = "If" ->
           \/ ExprAssigns(s.condition, n)
           \/ StmtAssigns(s.then_branch, n)
           \/ (s.else_branch # <<>> /\ StmtAssigns(s.else_branch[1], n))
      [] s.k = "While" -> ExprAssigns(s.condition, n) \/ StmtAssigns(s.body, n)

\* the unit assigns the name or declares it at its top level (outside any block)
UnitTouches(stmts, n) ==
    \E i \in 1..Len(stmts) :
        \/ (stmts[i].k = "Var" /\ stmts[i].name.lexeme = n)
        \/ StmtAssigns(stmts[i], n)


(***************************************************************************)
(* C2: a global variable keeps resolving to the same value across every     *)
(* later run call that neither assigns it nor declares it again at the      *)
(* top level, whether that call succeeds or ends in an error.               *)
(***************************************************************************)
C2_GlobalKeptAcrossCalls ==
    call.st = "Returned" =>
        \A n \in Names :
            (/\ MapHas(call.I0.environment.scopes[1], n)
             /\ Resolves(call.I0, n)
             /\ ~UnitTouches(call.stmts, n))
            => Resolve(interpreter, n) = Resolve(call.I0, n)

(***************************************************************************)
(* C4: when scanning or parsing the unit reported a syntax error, run       *)
(* executes none of its statements: the output and the environment are      *)
(* as they were before the call.                                            *)
(***************************************************************************)
SyntaxErrorReported ==
    \/ scanner.reported # <<>>
    \/ parser.reported # <<>>
    \/ call.result = "SyntaxErr"

C4_SyntaxErrorRunsNothing ==
    (call.st \in {"Running", "Returned"} /\ SyntaxErrorReported) =>
        interpreter = call.I0

(***************************************************************************)
(* C6: when a statement raises a runtime error, interpret stops there: the  *)
(* error is reported once, no output and no binding made before is lost,    *)
(* and nothing of the unit runs afterwards.                                 *)
(***************************************************************************)
FailingNow ==
    /\ call.st = "Running"
    /\ call.pc <= Len(call.stmts)
    /\ execute_stmt(interpreter, call.stmts[call.pc]).st = "Err"

C6_RuntimeErrorEndsUnit ==
    [][/\ FailingNow =>
            /\ call'.st = "Returned"
            /\ Len(reports') = Len(reports) + 1
            /\ reports'[Len(reports')].via = "eprintln"
            /\ IsPrefix(interpreter.output, interpreter'.output)
            /\ IsPrefix(call.I0.output, interpreter'.output)
            /\ \A n \in Names : Resolves(interpreter, n) => Resolves(interpreter', n)
       /\ call.st = "Returned" =>
            /\ interpreter' = interpreter
            /\ reports' = reports]_vars

\* a unit has stopped at a runtime error after a statement that printed and
\* before a statement that was left unexecuted
C6_Witness ==
    /\ call.st = "Returned"
    /\ call.result = "RuntimeErr"
    /\ 1 < call.pc
    /\ call.pc < Len(call.stmts)
    /\ Len(interpreter.output) > Len(call.I0.output)

(***************************************************************************)
(* C13: when run returns, had_error tells whether the unit produced an      *)
(* error: it is true after a unit with a scan, parse or runtime error (the  *)
(* flag run_file turns into exit code 65) and false after a unit without.   *)
(***************************************************************************)
UnitHadError ==
    \/ scanner.reported # <<>>
    \/ parser.reported # <<>>
    \/ call.result \in {"SyntaxErr", "RuntimeErr"}

C13_HadErrorSetOnError ==
    call.st = "Returned" => (had_error <=> UnitHadError)

(***************************************************************************)
(* SpecEval: Interpreter::evaluate_expr applied once to an expression tree  *)
(* on an interpreter whose global scope binds a to a value, or not at all.  *)
(* call keeps the expression, the interpreter before the call and the       *)
(* result.                                                                  *)
(***************************************************************************)
EvalVals ==
    {Num(0), Num(1), LitBoolean(TRUE), LitBoolean(FALSE), LitString(<<>>),
     LitString(<<"s">>), LitNone}

SlashTok == Tok("Slash", <<"/">>)
BangTok == Tok("Bang", <<"!">>)
BinaryToks ==
    {Tok("Plus", <<"+">>), Tok("Minus", <<"-">>), Tok("Star", <<"*">>), SlashTok,
     Tok("Greater", <<">">>), Tok("GreaterEqual", <<">", "=">>),
     Tok("Less", <<"<">>), Tok("LessEqual", <<"<", "=">>),
     Tok("EqualEqual", <<"=", "=">>), Tok("BangEqual", <<"!", "=">>)}
LogicalToks == {Tok("And", <<"a", "n", "d">>), Tok("Or", <<"o", "r">>)}

\* 1 / 0 and 0 / 0: the infinite and the undefined Number
InfExpr == Binary(ExprLiteral(Num(1)), SlashTok, ExprLiteral(Num(0)))
NaNExpr == Binary(ExprLiteral(Num(0)), SlashTok, ExprLiteral(Num(0)))
\* (a = 1): an operand that changes the environment when it is evaluated
AssignOperand == Grouping(Assign(NameTok(<<"a">>), ExprLiteral(Num(1))))

\* (a = 0): a second operand of that kind, with another value
AssignZero == Grouping(Assign(NameTok(<<"a">>), ExprLiteral(Num(0))))

Operands ==
    {ExprLiteral(v) : v \in EvalVals}
        \cup {Variable(NameTok(<<"a">>)), InfExpr, NaNExpr,
              Unary(MinusTok, ExprLiteral(Num(1))), ExprLiteral(LitString(<<"t">>))}
\* operands that assign, fail or read a, next to a Number and a String
EffectOperands ==
    {AssignOperand, AssignZero, FailExpr, Variable(NameTok(<<"a">>)),
     ExprLiteral(Num(1)), ExprLiteral(LitString(<<"s">>))}
EffectExprs ==
    {Binary(l, op, r) : l \in EffectOperands,
                        op \in {Tok("Plus", <<"+">>), Tok("EqualEqual", <<"=", "=">>)},
                        r \in EffectOperands}
UnaryExprs == {Unary(op, x) : op \in {MinusTok, BangTok}, x \in Operands \cup {AssignOperand}}
BinaryExprs == {Binary(l, op, r) : l \in Operands, op \in BinaryToks, r \in Operands}
LogicalExprs ==
    {Logical(l, op, r) :
        l \in Operands, op \in LogicalToks,
        r \in {AssignOperand, FailExpr, ExprLiteral(LitString(<<"s">>)),
               ExprLiteral(LitBoolean(FALSE))}}
EvalExprs == UnaryExprs \cup BinaryExprs \cup LogicalExprs \cup EffectExprs

InitEval ==
    /\ scanner = NoScanner
    /\ parser = NoParser
    /\ \E env \in {Environment_new}
                    \cup {define(Environment_new, <<"a">>, v).env : v \in EvalVals} :
          interpreter = Interpreter_new(env)
    /\ had_error = FALSE
    /\ reports = <<>>
    /\ call = [st |-> "Idle"]

\* what the caller of evaluate_expr keeps of its result
Evaluated(e, r) ==
    [st |-> r.st, expr |-> e, I0 |-> interpreter,
     v |-> IF r.st = "Ok" THEN r.v ELSE LitNone,
     message |-> IF r.st = "Err" THEN r.err.message ELSE <<>>]

Evaluate(e) ==
    /\ call.st = "Idle"
    /\ interpreter' = evaluate_expr(interpreter, e).I
    /\ call' = Evaluated(e, evaluate_expr(interpreter, e))
    /\ UNCHANGED <<scanner, parser, had_error, reports>>

NextEval == \E e \in EvalExprs : Evaluate(e)

SpecEval == InitEval /\ [][NextEval]_vars

\* evaluate_expr has been applied to an expression of kind k with operator kind op
Applied(k, op) ==
    /\ call.st # "Idle"
    /\ call.expr.k = k
    /\ call.expr.operator.kind = op

\* the results of the operands, evaluated left to right from the state before
LeftResult == evaluate_expr(call.I0, call.expr.left)
RightAfterLeft == evaluate_expr(LeftResult.I, call.expr.right)

\* the value is Boolean(false) or None
Falsy(v) == v = LitBoolean(FALSE) \/ v = LitNone

(***************************************************************************)
(* C16: for Logical(l, and, r) with l falsy and for Logical(l, or, r) with  *)
(* l truthy, r is not evaluated (the interpreter is as l left it, no        *)
(* assignment and no error of r has happened) and the result is l's own     *)
(* value; otherwise the result, its error and its effects are r's.  The     *)
(* result is the operand's value, not a Boolean made from it.               *)
(***************************************************************************)
ShortCircuits ==
    \/ (call.expr.operator.kind = "And" /\ Falsy(LeftResult.v))
    \/ (call.expr.operator.kind = "Or" /\ ~Falsy(LeftResult.v))

C16_LogicalShortCircuit ==
    (call.st # "Idle" /\ call.expr.k = "Logical" /\ LeftResult.st = "Ok") =>
        IF ShortCircuits
        THEN /\ call.st = "Ok"
             /\ call.v = LeftResult.v
             /\ interpreter = LeftResult.I
        ELSE /\ call.st = RightAfterLeft.st
             /\ interpreter = RightAfterLeft.I
             /\ call.st = "Ok" => call.v = RightAfterLeft.v
             /\ call.st = "Err" => call.message = RightAfterLeft.err.message

\* `0 or (a = 1)` with a bound to a string has yielded the Number 0 and a is
\* still that string: the assignment on the right has not run
C16_Witness ==
    /\ Applied("Logical", "Or")
    /\ call.expr.left = ExprLiteral(Num(0))
    /\ call.expr.right = AssignOperand
    /\ call.st = "Ok"
    /\ call.v = Num(0)
    /\ Resolves(call.I0, <<"a">>)
    /\ Resolve(interpreter, <<"a">>).v = LitString(<<"s">>)

\* the values of the two operands of a Binary
BothOk == LeftResult.st = "Ok" /\ RightAfterLeft.st = "Ok"
BothOf(kind) == LeftResult.v.t = kind /\ RightAfterLeft.v.t = kind

\* the two values are of the same kind and the same value
SameValue(a, b) == a.t = b.t /\ a = b

(***************************************************************************)
(* C17: for operands that are neither two Numbers nor two Strings, ==       *)
(* yields Boolean(is_equal(l, r)) and != its negation, where is_equal is    *)
(* structural and symmetric and None equals only None; every other          *)
(* operator on such a pair is a runtime error.                              *)
(***************************************************************************)
C17_MixedPairEquality ==
    (call.st # "Idle" /\ call.expr.k = "Binary" /\ BothOk
        /\ ~BothOf("Number") /\ ~BothOf("String")) =>
        /\ is_equal(LeftResult.v, RightAfterLeft.v) = SameValue(LeftResult.v, RightAfterLeft.v)
        /\ is_equal(LeftResult.v, RightAfterLeft.v) = is_equal(RightAfterLeft.v, LeftResult.v)
        /\ LeftResult.v = LitNone =>
              (is_equal(LeftResult.v, RightAfterLeft.v) <=> RightAfterLeft.v = LitNone)
        /\ CASE call.expr.operator.kind = "EqualEqual" ->
                  /\ call.st = "Ok"
                  /\ call.v = LitBoolean(SameValue(LeftResult.v, RightAfterLeft.v))
             [] call.expr.operator.kind = "BangEqual" ->
                  /\ call.st = "Ok"
                  /\ call.v = LitBoolean(~SameValue(LeftResult.v, RightAfterLeft.v))
             [] OTHER -> call.st = "Err"

\* `true == false` has yielded Boolean(false)
C17_Witness ==
    /\ Applied("Binary", "EqualEqual")
    /\ call.expr.left = ExprLiteral(LitBoolean(TRUE))
    /\ call.expr.right = ExprLiteral(LitBoolean(FALSE))
    /\ call.st = "Ok"
    /\ call.v = LitBoolean(FALSE)

(***************************************************************************)
(* C18: for two Number operands and each of + - * / > >= < <= == != Binary  *)
(* raises no runtime error: the comparisons and equalities yield a Boolean  *)
(* and the arithmetic operators a Number, also for a division by zero,      *)
(* whose result is an infinity or NaN.                                      *)
(***************************************************************************)
C18_NumberPairNeverFails ==
    (call.st # "Idle" /\ call.expr.k = "Binary" /\ BothOk /\ BothOf("Number")) =>
        /\ call.st = "Ok"
        /\ call.v.t = IF call.expr.operator.kind \in {"Plus", "Minus", "Star", "Slash"}
                      THEN "Number" ELSE "Boolean"
        /\ (call.expr.operator.kind = "Slash" /\ RightAfterLeft.v = Num(0)) =>
              call.v.n \in {<<1, 0>>, <<-1, 0>>, <<0, 0>>}

\* a division of a Number that is not zero by zero has yielded an infinity
C18_Witness ==
    /\ Applied("Binary", "Slash")
    /\ BothOk
    /\ LeftResult.v = Num(1)
    /\ RightAfterLeft.v = Num(0)
    /\ call.st = "Ok"
    /\ call.v = LitNumber(<<1, 0>>)

\* the result of the operand of a Unary
OperandResult == evaluate_expr(call.I0, call.expr.right)

(***************************************************************************)
(* C19: unary minus yields the negation of its operand when the operand     *)
(* evaluates to a Number, and fails with an `Operand must be a number`      *)
(* runtime error when it evaluates to a Boolean, a String or None; the      *)
(* operator changes nothing of the environment (it is as the evaluation of  *)
(* the operand left it, and as it was before for an operand that assigns    *)
(* nothing).                                                                *)
(***************************************************************************)
C19_UnaryMinus ==
    (Applied("Unary", "Minus") /\ OperandResult.st = "Ok") =>
        /\ interpreter = OperandResult.I
        /\ call.expr.right # AssignOperand => interpreter = call.I0
        /\ IF OperandResult.v.t = "Number"
           THEN /\ call.st = "Ok"
                /\ call.v.t = "Number"
                /\ call.v.n = <<0 - OperandResult.v.n[1], OperandResult.v.n[2]>>
           ELSE /\ call.st = "Err"
                /\ call.message = "Operand must be a number"

\* -"s" has failed and a is bound as before
C19_Witness ==
    /\ Applied("Unary", "Minus")
    /\ call.expr.right = ExprLiteral(LitString(<<"s">>))
    /\ call.st = "Err"
    /\ call.message = "Operand must be a number"
    /\ Resolves(call.I0, <<"a">>)
    /\ interpreter = call.I0

(***************************************************************************)
(* C20: is_truthy is false exactly for Boolean(false) and None and true     *)
(* for every other value, Number 0 and the empty String included; unary !   *)
(* always yields a Boolean, the negation of its operand's truthiness.       *)
(***************************************************************************)
C20_TruthinessAndBang ==
    (Applied("Unary", "Bang") /\ OperandResult.st = "Ok") =>
        /\ is_truthy(OperandResult.v) = ~Falsy(OperandResult.v)
        /\ call.st = "Ok"
        /\ call.v = LitBoolean(Falsy(OperandResult.v))

\* !0 has yielded Boolean(false)
C20_Witness ==
    /\ Applied("Unary", "Bang")
    /\ call.expr.right = ExprLiteral(Num(0))
    /\ call.st = "Ok"
    /\ call.v = LitBoolean(FALSE)

RECURSIVE PrintCount(_)
\* the Print statements in a statement tree
PrintCount(s) ==
    CASE s.k = "Print" -> 1
      [] s.k = "Block" ->
           (LET RECURSIVE Sum(_)
                Sum(i) == IF i = 0 THEN 0 ELSE Sum(i - 1) + PrintCount(s.statements[i])
            IN Sum(Len(s.statements)))
      [] OTHER -> 0

\* the lines the step has added to the sink
Written == SubSeq(interpreter'.output, Len(interpreter.output) + 1, Len(interpreter'.output))

(***************************************************************************)
(* C21: a Print statement whose expression evaluates writes one line, the   *)
(* printable form of the value, at the end of what the sink holds, and a    *)
(* sink that refuses the write makes it a runtime error that ends the       *)
(* unit; a Print whose expression fails, a Var and an expression statement  *)
(* write nothing, and a Block writes only through the Print statements in   *)
(* it.                                                                      *)
(***************************************************************************)
PrintWritesOneLine(s) ==
    IF evaluate_expr(interpreter, s.expression).st # "Ok"
    THEN Written = <<>>
    ELSE IF interpreter.sink_ok
    THEN /\ call'.st = "Running"
         /\ Written = <<printable(evaluate_expr(interpreter, s.expression).v)>>
    ELSE /\ call'.st = "Err"
         /\ Written = <<>>

C21_PrintWritesOneLine ==
    [][(call.st = "Running" /\ call'.n = call.n + 1) =>
          /\ IsPrefix(interpreter.output, interpreter'.output)
          /\ call'.stmt[1].k # "While" => Len(Written) <= PrintCount(call'.stmt[1])
          /\ ~interpreter.sink_ok => Written = <<>>
          /\ call'.stmt[1].k = "Print" => PrintWritesOneLine(call'.stmt[1])]_vars

\* a Print of a defined variable has ended in a runtime error because the
\* sink refused the line
C21_Witness ==
    /\ call.st = "Err"
    /\ call.stmt # <<>>
    /\ call.stmt[1].k = "Print"
    /\ evaluate_expr(interpreter, call.stmt[1].expression).st = "Ok"
    /\ ~interpreter.sink_ok
    /\ interpreter.output = <<>>

\* the report error_token makes of a token: its line and " at end" or its lexeme
ReportOf(token, r) ==
    /\ r.via = "report"
    /\ r.line = token.line
    /\ r.where = IF token.kind = "Eof" THEN <<"end">> ELSE token.lexeme

(***************************************************************************)
(* C22: a parse that has failed has made exactly one report through the     *)
(* error reporter, and that report carries the line and the location of a   *)
(* token of the input (the offending one), whatever the failure is: also    *)
(* an 'Expect expression.' of primary and a token missed by consume.        *)
(***************************************************************************)
C22_ParseFailureReportedOnce ==
    parser.st = "Err" =>
        /\ Len(parser.reported) = 1
        /\ \E i \in 1..Len(parser.tokens) :
              ReportOf(parser.tokens[i], parser.reported[1])

\* the failures consume and assignment detect are reported once, with the token
C22_ConsumeReportedOnce ==
    (parser.st = "Err" /\ parser.reported # <<>>) =>
        /\ Len(parser.reported) = 1
        /\ \E i \in 1..Len(parser.tokens) :
              ReportOf(parser.tokens[i], parser.reported[1])

\* the 16 keywords (token.rs keywords)
Keywords ==
    {<<"a", "n", "d">>, <<"c", "l", "a", "s", "s">>, <<"e", "l", "s", "e">>,
     <<"f", "a", "l", "s", "e">>, <<"f", "u", "n">>, <<"f", "o", "r">>, <<"i", "f">>,
     <<"n", "i", "l">>, <<"o", "r">>, <<"p", "r", "i", "n", "t">>,
     <<"r", "e", "t", "u", "r", "n">>, <<"s", "u", "p", "e", "r">>,
     <<"t", "h", "i", "s">>, <<"t", "r", "u", "e">>, <<"v", "a", "r">>,
     <<"w", "h", "i", "l", "e">>}

IdentChars == Letters \cup Digits \cup {"_"}

\* the offset right after the run of letters, digits and '_' that starts at s.start
IdentEnd(s) ==
    CHOOSE e \in (s.start + 1)..Len(s.source) :
        /\ \A i \in (s.start + 1)..e : s.source[i] \in IdentChars
        /\ (e = Len(s.source) \/ s.source[e + 1] \notin IdentChars)

\* scan_token started at a letter or '_'
StartsIdentifier(s) == Scanned(s) /\ FirstChar(s) \in Letters \cup {"_"}

\* the step has pushed one token for the maximal run, a keyword token exactly
\* when the run is a keyword
MaximalRunToken(s) ==
    /\ s.st # "Panic"
    /\ s.current = IdentEnd(s)
    /\ s.tokens # <<>>
    /\ LastToken(s).lexeme = SubSeq(s.source, s.start + 1, IdentEnd(s))
    /\ LastToken(s).lexeme \in Keywords <=> LastToken(s).kind # "Identifier"
    /\ LastToken(s).lexeme = <<"o", "r">> => LastToken(s).kind = "Or"

(***************************************************************************)
(* C23: from a letter or '_' the scanner takes the maximal run of letters,  *)
(* digits and '_' as one token; its kind is a keyword's exactly when the    *)
(* whole lexeme is one of the 16 keywords and Identifier otherwise.         *)
(***************************************************************************)
C23_IdentifierMaximalRun ==
    StartsIdentifier(scanner) => MaximalRunToken(scanner)

\* the same on a text of ASCII characters only
C23_AsciiIdentifierMaximalRun ==
    (StartsIdentifier(scanner) /\ \A i \in 1..Len(scanner.source) :
                                     Width(scanner.source[i]) = 1 /\ scanner.source[i] # Cont)
        => MaximalRunToken(scanner)

\* the parser with its cursor at token i (from 0)
CursorAt(i) == [parser EXCEPT !.current = i]

\* a cursor synchronize can be called at: a failure at the first token is
\* never at Eof, since parse does not call declaration there
CanFailAt(i) == i > 0 \/ parser.tokens[1].kind # "Eof"

\* the parser stands at a statement boundary, not past the Eof token
AtBoundary(q) ==
    /\ q.current < Len(q.tokens)
    /\ \/ at_end(q)
       \/ previous(q).kind = "Semicolon"
       \/ peek(q).kind \in {"Class", "Fun", "Var", "For", "If", "While", "Print", "Return"}

\* what holds of the parser q that synchronize returns when called on p
SyncReturned(p, q) ==
    /\ AtBoundary(q)
    /\ at_end(p) => q.current = p.current
    /\ ~at_end(p) => q.current > p.current
    /\ q.tokens = p.tokens

(***************************************************************************)
(* C25: when synchronize returns, the parser is at Eof, or has just         *)
(* consumed a ';', or stands at class, fun, var, for, if, while, print or   *)
(* return; it has discarded at least one token unless it was called at      *)
(* Eof, and the cursor is never past the Eof token.  This holds for a call  *)
(* at every cursor of the token sequence and of the parser that a failed    *)
(* declaration leaves.                                                      *)
(***************************************************************************)
C25_SynchronizeStopsAtBoundary ==
    /\ \A i \in 0..(Len(parser.tokens) - 1) :
          CanFailAt(i) => SyncReturned(CursorAt(i), synchronize(CursorAt(i)))
    /\ parser.st = "Err" =>
          /\ parser.syncs > 0
          /\ parser.current > 0
          /\ AtBoundary(parser)

\* a failed declaration has left the parser right after a ';', before the end
C25_Witness ==
    /\ parser.st = "Err"
    /\ parser.syncs = 1
    /\ ~at_end(parser)
    /\ previous(parser).kind = "Semicolon"
    /\ peek(parser).kind \notin SyncKinds
    /\ parser.current > 1

(***************************************************************************)
(* C30: a parse failure makes one call of synchronize, however deep in      *)
(* blocks the failing declaration is: the error that goes out through the   *)
(* enclosing block declarations makes no further call.                      *)
(***************************************************************************)
C30_SynchronizeOncePerFailure ==
    parser.st = "Err" => parser.syncs = 1

\* the same for a failure outside every block
C30_TopLevelSynchronizeOnce ==
    (parser.st = "Err" /\ \A i \in 1..Len(parser.tokens) :
                             parser.tokens[i].kind # "LeftBrace")
        => parser.syncs = 1

(***************************************************************************)
(* C27: Binary evaluates its left operand, then its right operand, then     *)
(* looks at the operator and the kinds of the two values.  When the left    *)
(* operand fails, the error is the left operand's and the interpreter is    *)
(* as the left operand left it: no assignment of the right operand has      *)
(* happened.  When both operands evaluate, the interpreter is as the right  *)
(* operand left it after the left one, also when the operator does not fit  *)
(* the kinds and Binary fails.                                              *)
(***************************************************************************)
C27_BinaryOperandOrder ==
    (call.st # "Idle" /\ call.expr.k = "Binary") =>
        IF LeftResult.st # "Ok"
        THEN /\ call.st = "Err"
             /\ call.message = LeftResult.err.message
             /\ interpreter = LeftResult.I
        ELSE /\ interpreter = RightAfterLeft.I
             /\ RightAfterLeft.st # "Ok" =>
                   /\ call.st = "Err"
                   /\ call.message = RightAfterLeft.err.message

\* (a = 1) + (a = 0) has failed on its operand kinds with a bound to 0
C27_Witness ==
    /\ Applied("Binary", "Plus")
    /\ call.expr.left = AssignOperand
    /\ call.expr.right = AssignZero
    /\ call.st = "Err"
    /\ call.message = "Unsupported binary operator"
    /\ Resolves(call.I0, <<"a">>)
    /\ Resolve(call.I0, <<"a">>).v = LitString(<<"s">>)
    /\ Resolve(interpreter, <<"a">>).v = Num(0)

\* -true + (a = 1) has failed with a bound as before
LeftFailureKeepsBinding ==
    /\ Applied("Binary", "Plus")
    /\ call.expr.left = FailExpr
    /\ call.expr.right = AssignOperand
    /\ call.st = "Err"
    /\ Resolves(call.I0, <<"a">>)
    /\ interpreter = call.I0

(***************************************************************************)
(* C29: for two String operands + yields the String made of the left value  *)
(* followed by the right one, and every other binary operator, == and !=    *)
(* included, is a runtime error.                                            *)
(***************************************************************************)
C29_StringPairOnlyPlus ==
    (call.st # "Idle" /\ call.expr.k = "Binary" /\ BothOk /\ BothOf("String")) =>
        IF call.expr.operator.kind = "Plus"
        THEN /\ call.st = "Ok"
             /\ call.v = LitString(LeftResult.v.s \o RightAfterLeft.v.s)
        ELSE /\ call.st = "Err"
             /\ call.message = "Unsupported binary operator"

\* "s" == "s" has failed
C29_Witness ==
    /\ Applied("Binary", "EqualEqual")
    /\ call.expr.left = ExprLiteral(LitString(<<"s">>))
    /\ call.expr.right = ExprLiteral(LitString(<<"s">>))
    /\ call.st = "Err"

\* "s" + "t" has yielded "st"
StringsConcatenated ==
    /\ Applied("Binary", "Plus")
    /\ call.expr.left = ExprLiteral(LitString(<<"s">>))
    /\ call.expr.right = ExprLiteral(LitString(<<"t">>))
    /\ call.v = LitString(<<"s", "t">>)

\* the While statement the step executes
Loop == call'.stmt[1]

RECURSIVE Iterated(_)
\* the interpreter after j iterations of the loop, each one an evaluation of
\* the condition followed by an execution of the body
Iterated(j) ==
    IF j = 0 THEN interpreter
    ELSE execute_stmt(evaluate_expr(Iterated(j - 1), Loop.condition).I, Loop.body).I

\* the j+1st evaluation of the condition and the execution of the body after it
ConditionAt(j) == evaluate_expr(Iterated(j), Loop.condition)
BodyAt(j) == execute_stmt(ConditionAt(j).I, Loop.body)

\* j iterations have run, each after a truthy evaluation of the condition
RanIterations(j) ==
    \A i \in 0..(j - 1) :
        /\ ConditionAt(i).st = "Ok"
        /\ ~Falsy(ConditionAt(i).v)
        /\ BodyAt(i).st = "Ok"

(***************************************************************************)
(* C26: a While statement is a run of iterations, each an evaluation of     *)
(* the condition that is truthy followed by one execution of the body, and  *)
(* one more evaluation of the condition.  When the statement ends without   *)
(* error that last evaluation was falsy and the interpreter is as it left   *)
(* it (so the body has not run at all when the first evaluation is          *)
(* falsy); when it ends with an error, the error is the last evaluation's   *)
(* or that of the body run right after a truthy evaluation.                 *)
(***************************************************************************)
C26_WhileChecksConditionFirst ==
    [][Executes("While") =>
          \E j \in 0..MaxIter :
              /\ RanIterations(j)
              /\ \/ /\ call'.st = "Running"
                    /\ ConditionAt(j).st = "Ok"
                    /\ Falsy(ConditionAt(j).v)
                    /\ interpreter' = ConditionAt(j).I
                 \/ /\ call'.st = "Err"
                    /\ ConditionAt(j).st = "Err"
                    /\ interpreter' = ConditionAt(j).I
                 \/ /\ call'.st = "Err"
                    /\ ConditionAt(j).st = "Ok"
                    /\ ~Falsy(ConditionAt(j).v)
                    /\ BodyAt(j).st = "Err"
                    /\ interpreter' = BodyAt(j).I]_vars

\* the loop `while (a < 3) { print a; a = a + 1; }` has ended after two
\* iterations, which printed 1 and 2
C26_Witness ==
    /\ call.st = "Running"
    /\ call.stmt # <<>>
    /\ call.stmt[1].k = "While"
    /\ call.stmt[1].condition = BelowThree(<<"a">>)
    /\ interpreter.output = <<<<"1">>, <<"2">>>>
    /\ Resolve(interpreter, <<"a">>).v = Num(3)

\* impl Display for Literal
literal_fmt(v) ==
    CASE v.t = "Number" -> NumText(v.n)
      [] v.t = "String" -> <<"\"">> \o v.s \o <<"\"">>
      [] v.t = "Boolean" -> (IF v.b THEN <<"t", "r", "u", "e">> ELSE <<"f", "a", "l", "s", "e">>)
      [] v.t = "None" -> <<"n", "i", "l">>

RECURSIVE expr_fmt(_)
\* impl Display for Expr
expr_fmt(e) ==
    CASE e.k = "Binary" ->
           <<"(">> \o e.operator.lexeme \o <<" ">> \o expr_fmt(e.left) \o <<" ">>
               \o expr_fmt(e.right) \o <<")">>
      [] e.k = "Grouping" ->
           <<"(", "g", "r", "o", "u", "p", " ">> \o expr_fmt(e.expression) \o <<")">>
      [] e.k = "Literal" -> literal_fmt(e.value)
      [] e.k = "Unary" -> <<"(">> \o e.operator.lexeme \o <<" ">> \o expr_fmt(e.right) \o <<")">>

\* how tightly an infix operator binds
Rank(kind) ==
    CASE kind \in {"Star", "Slash"} -> 5
      [] kind \in {"Plus", "Minus"} -> 4
      [] kind \in {"Greater", "GreaterEqual", "Less", "LessEqual"} -> 3
      [] kind \in {"EqualEqual", "BangEqual"} -> 2
      [] kind = "And" -> 1
      [] kind = "Or" -> 0

\* the node of an infix operator and the literal of a whole number
Node(kind, left, right) ==
    IF kind \in {"And", "Or"} THEN Logical(left, OpTok(kind), right)
    ELSE Binary(left, OpTok(kind), right)
NumLit(n) == ExprLiteral(Num(n))

\* the tree of `1 o1 2 o2 3`: the tighter operator is the inner node, and of
\* two operators of one level the left one
Folded(o1, o2) ==
    IF Rank(o1) >= Rank(o2)
    THEN Node(o2, Node(o1, NumLit(1), NumLit(2)), NumLit(3))
    ELSE Node(o1, NumLit(1), Node(o2, NumLit(2), NumLit(3)))

\* the prefix notation of that tree
FoldedText(o1, o2) ==
    IF Rank(o1) >= Rank(o2)
    THEN <<"(">> \o OpLexeme(o2) \o <<" ", "(">> \o OpLexeme(o1)
             \o <<" ", "1", " ", "2", ")", " ", "3", ")">>
    ELSE <<"(">> \o OpLexeme(o1) \o <<" ", "1", " ", "(">> \o OpLexeme(o2)
             \o <<" ", "2", " ", "3", ")", ")">>

\* the kind of the i-th token given to the parser
KindAt(i) == IF i <= Len(parser.tokens) THEN parser.tokens[i].kind ELSE "none"

\* parse has returned the one expression statement of the tokens ts
ParsedAs(ts, e) ==
    /\ parser.tokens = Append(ts, EofTok)
    /\ parser.st \in {"Parsing", "Ok"}
    /\ parser.current > 0 => parser.statements = <<StmtExpr(e)>>

(***************************************************************************)
(* C28: the parser builds the tree of an expression by precedence: a unary  *)
(* operator binds tighter than * and /, these tighter than + and -, then    *)
(* the comparisons, the equalities, and, or, and assignment last; two       *)
(* operators of one level fold to the left.  The display form of a tree of  *)
(* Binary, Unary, Grouping and Literal nodes is its fully parenthesized     *)
(* prefix notation, operator first: the tokens of `-123 * (45.67)` give    *)
(* the product node of (- 123) and (group 45.67), written in that form.     *)
(***************************************************************************)
C28_PrecedenceAndLeftFold ==
    /\ (KindAt(1) = "Number" /\ KindAt(2) \in InfixKinds /\ KindAt(4) \in InfixKinds) =>
          /\ ParsedAs(TwoInfix(KindAt(2), KindAt(4)), Folded(KindAt(2), KindAt(4)))
          /\ {KindAt(2), KindAt(4)} \cap {"And", "Or"} = {} =>
                expr_fmt(Folded(KindAt(2), KindAt(4))) = FoldedText(KindAt(2), KindAt(4))
    /\ (KindAt(1) \in PrefixKinds /\ KindAt(3) \in InfixKinds /\ KindAt(4) = "Number") =>
          ParsedAs(PrefixInfix(KindAt(1), KindAt(3)),
                   Node(KindAt(3), Unary(OpTok(KindAt(1)), NumLit(1)), NumLit(2)))
    /\ (KindAt(2) = "Equal" /\ KindAt(4) \in InfixKinds) =>
          ParsedAs(AssignInfix(KindAt(4)),
                   Assign(IdentTok(<<"a">>), Node(KindAt(4), NumLit(1), NumLit(2))))
    /\ (KindAt(4) = "LeftParen" /\ KindAt(1) = "Minus" /\ parser.current > 0) =>
          /\ parser.tokens = Append(DisplayExample, EofTok)
          /\ Len(parser.statements) = 1
          /\ expr_fmt(parser.statements[1].expression) =
                 <<"(", "*", " ", "(", "-", " ", "1", "2", "3", ")", " ",
                   "(", "g", "r", "o", "u", "p", " ", "4", "5", ".", "6", "7", ")", ")">>

\* parse has returned the tree of `1 - 2 - 3`, whose display form is
\* `(- (- 1 2) 3)`
C28_Witness ==
    /\ parser.st = "Ok"
    /\ parser.tokens = Append(TwoInfix("Minus", "Minus"), EofTok)
    /\ parser.statements =
           <<StmtExpr(Binary(Binary(NumLit(1), OpTok("Minus"), NumLit(2)),
                             OpTok("Minus"), NumLit(3)))>>
    /\ expr_fmt(parser.statements[1].expression) =
           <<"(", "-", " ", "(", "-", " ", "1", " ", "2", ")", " ", "3", ")">>

\* the parts of `for (var i = 0; i < 2; i = i + 1) print i;`
ForVar == Variable(IdentTok(<<"i">>))
ForInit(init) ==
    IF init = "var" THEN StmtVar(IdentTok(<<"i">>), NumLit(0))
    ELSE StmtExpr(Assign(IdentTok(<<"i">>), NumLit(0)))
ForCond == Binary(ForVar, OpTok("Less"), NumLit(2))
ForIncr == Assign(IdentTok(<<"i">>), Binary(ForVar, OpTok("Plus"), NumLit(1)))
ForBody == StmtPrint(ForVar)

\* Block[init, While(cond, Block[body, Expr(increment)])], with the outer
\* Block left out without init, the inner one without increment, and the
\* literal true for an absent cond
ForTree(init, cond, incr) ==
    LET inner == IF incr THEN StmtBlock(<<ForBody, StmtExpr(ForIncr)>>) ELSE ForBody
        loop == StmtWhile(IF cond THEN ForCond ELSE ExprLiteral(LitBoolean(TRUE)), inner)
    IN IF init = "none" THEN loop ELSE StmtBlock(<<ForInit(init), loop>>)

\* the interpreter the statement runs on: i is a global unless the init
\* clause declares it (5 where the init clause assigns it, 0 otherwise)
ForStart(init) ==
    Interpreter_new(IF init = "var" THEN Environment_new
                    ELSE define(Environment_new, <<"i">>,
                                IF init = "expr" THEN Num(5) ELSE Num(0)).env)

\* the lines of a run in which init runs once and each iteration evaluates
\* cond, runs body and then increment: 0 and 1 when the loop counts to 2,
\* and one line per iteration followed for a loop that does not end
ForLines(cond, incr) ==
    [j \in 1..(IF cond /\ incr THEN 2 ELSE MaxIter) |->
        IF incr THEN NatText(j - 1) ELSE <<"0">>]

ForRun(init) == interpret(ForStart(init), parser.statements)

(***************************************************************************)
(* C24: a for statement parses to Block[init, While(cond,                   *)
(* Block[body, Expr(increment)])], without the outer Block when init is     *)
(* absent, without the inner Block when increment is absent, and with the   *)
(* literal true for an absent cond.  When it is executed init runs once,    *)
(* and every iteration evaluates cond, then runs body, then increment.      *)
(***************************************************************************)
C24_ForDesugarsToWhile ==
    KindAt(1) = "For" =>
        \A init \in ForInits, cond \in BOOLEAN, incr \in BOOLEAN :
            parser.tokens = Append(ForTokens(init, cond, incr), EofTok) =>
                /\ parser.st \in {"Parsing", "Ok"}
                /\ parser.current > 0 =>
                      /\ parser.statements = <<ForTree(init, cond, incr)>>
                      /\ ForRun(init).st = IF cond /\ incr THEN "Ok" ELSE "Fuel"
                      /\ ForRun(init).I.output = ForLines(cond, incr)
                      /\ (cond /\ incr /\ init = "expr") =>
                            Resolve(ForRun(init).I, <<"i">>).v = Num(2)
                      /\ (cond /\ incr /\ init = "var") =>
                            ~Resolves(ForRun(init).I, <<"i">>)

\* parse has returned the tree of `for (var i = 0; i < 2; i = i + 1) print i;`
\* and its execution prints 0 and 1
C24_Witness ==
    /\ parser.st = "Ok"
    /\ parser.tokens = Append(ForTokens("var", TRUE, TRUE), EofTok)
    /\ parser.statements =
           <<StmtBlock(<<StmtVar(IdentTok(<<"i">>), NumLit(0)),
                         StmtWhile(ForCond, StmtBlock(<<ForBody, StmtExpr(ForIncr)>>))>>)>>
    /\ ForRun("var").st = "Ok"
    /\ ForRun("var").I.output = <<<<"0">>, <<"1">>>>

=============================================================================
